---- MODULE Spec2Model ----
(***************************************************************************)
(* Verification model of the rib generators of fusion_rib_wall.            *)
(*                                                                         *)
(*   SpecTabs   : the tab span builders (util.build_tab_spans and the      *)
(*                inline copies in wavy.py and backer.py) applied to       *)
(*                bounded inputs.                                          *)
(*   SpecSmooth : util.smooth_series, one action per loop iteration.       *)
(*   Spec       : one run of wavy.generate_organic_ribs: span              *)
(*                precomputation, then per rib the free edge, the          *)
(*                baseline walk with tab detours, the profile check,       *)
(*                the extrusion and the placement.                         *)
(*                                                                         *)
(* Lengths in inches are integers of the model (tab widths are even, so    *)
(* that tab_width_in / 2.0 is exact).  Sketch coordinates are what cm()    *)
(* produces, in hundredths of a centimetre (1 in = 254).  Floating point   *)
(* rounding is not modelled: arithmetic is exact.                          *)
(***************************************************************************)
EXTENDS Integers, Sequences, FiniteSets, TLC

VARIABLES
    \* ---- inputs of the span builders / of generate_organic_ribs
    tab_centers_in,     \* list of tab centres (inches)
    tab_width_in,       \* tab width (inches)
    tab_height_in,      \* tab height (inches)
    rib_length_in,      \* rib length (inches)
    rib_height_in,      \* rib height (inches)
    rib_count,          \* number of ribs
    add_tabs,           \* tabs requested
    \* ---- SpecTabs
    builder,            \* which span builder ran: "none", "util", "organic", "backer"
    spans,              \* the list that builder returned
    \* ---- SpecSmooth
    sm_values,          \* argument `values` of smooth_series
    sm_passes,          \* argument `passes`
    sm_out,             \* local `out`
    sm_iter,            \* loop iterations completed so far
    sm_trace,           \* the successive values of `out`, oldest first
    sm_pc,              \* "call", "loop", "returned"
    \* ---- Spec (generate_organic_ribs)
    pc,                 \* position in generate_organic_ribs
    tab_spans,          \* precomputed spans, sorted right to left
    i,                  \* rib index of the build loop
    fitPts,             \* fit points of the free edge spline of rib i (cm)
    lines,              \* sketch lines of rib i, in the order added: <<from, to>>
    cur_x,              \* baseline walk position (inches)
    p,                  \* baseline walk current point (cm)
    k,                  \* tab spans already walked for rib i
    occs,               \* rib occurrences created in the container (rib indices)
    bodies,             \* ribs that were extruded
    placed,             \* ribs whose occurrence was given its placement
    transforms,         \* the transform given to each placed rib, in order
    messages,           \* message boxes shown, in order
    \* ---- SpecOrganic (a session of runs of generate_organic_ribs)
    seed,               \* seed of the current run
    randomness,         \* randomness of the session (0 or 1)
    base_amp_in,        \* wave amplitude after the dialog's clamp
    base_period_in,     \* wave period (inches)
    use_end_fade,       \* end fade switch of the current run
    warp_strength_in,   \* warp strength (inches)
    rib_thickness_in,   \* rib thickness (inches)
    gap_between_ribs_in, \* gap between ribs (inches)
    master,             \* the master stream of the run
    rib_rng,            \* the stream of the rib being prepared or built
    streams,            \* seeds of the streams created in the run, in order
    global_warp_components, \* the shared warp component <<amp, ph>>
    rib_params,         \* per rib: [Ai, Pi, phi0, bulge, local]
    env_vals,           \* envelope value of each sample of rib i
    x_vals,             \* x_in of each sample of rib i
    ribs_out,           \* per built rib: outline points, extrusion, placement
    entropy,            \* what the host would seed an unseeded stream with
    runs,               \* finished runs of the session: [in, out]
    \* ---- SpecFlow (generator.execute and geometry.generate_flow_ribs)
    dialog,             \* values of the command inputs, by input id
    args,               \* keyword arguments generate_flow_ribs was called with
    fields,             \* [big, small]: the two warped wave fields
    mass,               \* [u0, v0, amp]: the mass bulge
    draws,              \* random numbers drawn so far in the run
    y_center_vals,      \* centreline offsets of rib i as sampled
    y_smooth,           \* centreline offsets of rib i after smooth_series
    progress,           \* the progress dialog: "none", "shown", "hidden"
    field_vals,         \* [u, v, value]: evaluations of the warped field
    layout_along_y,     \* the layoutAlongY argument of generate_organic_ribs
    container_transform, \* the transform of the container occurrence
    root_occs,          \* the occurrences of the root component, in order
    footprints,         \* the sketch of each rib of generate_flow_ribs
    last_call,          \* what the last command execution read and found
    pockets             \* the pocket rectangles of build_backer_panel

vars == <<tab_centers_in, tab_width_in, tab_height_in, rib_length_in,
          rib_height_in, rib_count, add_tabs,
          builder, spans,
          sm_values, sm_passes, sm_out, sm_iter, sm_trace, sm_pc,
          pc, tab_spans, i, fitPts, lines, cur_x, p, k,
          occs, bodies, placed, transforms, messages,
          seed, randomness, base_amp_in, base_period_in, use_end_fade,
          warp_strength_in, rib_thickness_in, gap_between_ribs_in,
          master, rib_rng, streams, global_warp_components, rib_params,
          env_vals, x_vals, ribs_out, entropy, runs,
          dialog, args, fields, mass, draws, y_center_vals, y_smooth, progress,
          field_vals,
          layout_along_y, container_transform, root_occs, footprints,
          last_call, pockets>>

inputVars == <<tab_centers_in, tab_width_in, tab_height_in, rib_length_in,
               rib_height_in, rib_count, add_tabs>>
tabVars == <<builder, spans>>
smoothVars == <<sm_values, sm_passes, sm_out, sm_iter, sm_trace, sm_pc>>
ribVars == <<pc, tab_spans, i, fitPts, lines, cur_x, p, k,
             occs, bodies, placed, transforms, messages>>
organicVars == <<seed, randomness, base_amp_in, base_period_in, use_end_fade,
                 warp_strength_in, rib_thickness_in, gap_between_ribs_in,
                 master, rib_rng, streams, global_warp_components, rib_params,
                 env_vals, x_vals, ribs_out, entropy, runs>>
flowVars == <<dialog, args, fields, mass, draws, y_center_vals, y_smooth,
              progress, field_vals>>
hostVars == <<layout_along_y, container_transform, root_occs, footprints,
              last_call, pockets>>

----------------------------------------------------------------------------
(* Bounds of the model *)

\* longest list of tab centres that is enumerated
MaxTabs == 2
\* number of spline samples per rib (the free edge has Samples + 1 points)
Samples == 2
\* largest rib count that is enumerated
MaxRibs == 2
\* longest series handed to smooth_series
MaxLen == 4
\* largest number of smoothing passes
MaxPasses == 2
\* number of runs in a session
MaxRuns == 2

\* tab centres that are enumerated: left of the rib, clamped at 0, overlapping
\* neighbours (2, 3), the dialog default (16, 32), clamped at the right end
Centers == {-1, 2, 3, 16, 32, 47}
\* tab centres typed into the dialog in a run of the generator (an empty
\* list stands for the default 16, 32)
DialogCenters == {-1, 2, 3, 47}
\* tab widths (even, so that the half width is exact)
Widths == {2, 4}
\* tab heights
TabHeights == {0, 1}
\* rib lengths used for the span builders
Lengths == {4, 48}
\* wave term env * Ai * bulge * sin(...) of the height formula, per sample:
\* none, and one larger than the rib height (the height is clamped to 0)
Waves == {0, 2}

----------------------------------------------------------------------------
(* Helpers *)

Max(a, b) == IF a >= b THEN a ELSE b
Min(a, b) == IF a <= b THEN a ELSE b

\* all lists over S of length at most n
SeqsUpTo(S, n) == UNION {[1 .. m -> S] : m \in 0 .. n}

\* wavy.py: def cm(v): return v * 2.54   (hundredths of a centimetre)
cm(v) == v * 254

\* fitPts.item(j).y / 2.54, the way back from sketch units to inches
inches(y) == y \div 254

----------------------------------------------------------------------------
(* Tab span builders *)

\* mutant of ClampSpan: the whole width taken on each side of the centre
ClampSpanFullWidth(c, w, L) == <<Max(0, c - w), Min(L, c + w)>>

\* one span as the loop body computes it: x0 = max(0, c - w/2),
\* x1 = min(L, c + w/2)
ClampSpan(c, w, L) == <<Max(0, c - (w \div 2)), Min(L, c + (w \div 2))>>

\* mutant of AppendSpans: the test "if x1 > x0" left out
RECURSIVE AppendSpansNoFilter(_, _, _)
AppendSpansNoFilter(centers, w, L) ==
    IF centers = <<>> THEN <<>>
    ELSE <<ClampSpan(Head(centers), w, L)>> \o AppendSpansNoFilter(Tail(centers), w, L)

\* the loop: spans.append((x0, x1)) for the centres with x1 > x0, in input order
RECURSIVE AppendSpans(_, _, _)
AppendSpans(centers, w, L) ==
    IF centers = <<>> THEN <<>>
    ELSE LET s == ClampSpan(Head(centers), w, L)
             rest == AppendSpans(Tail(centers), w, L)
         IN IF s[2] > s[1] THEN <<s>> \o rest ELSE rest

\* insert s into a list already sorted by descending start, after the
\* entries whose start is >= s's start (keeps the sort stable)
RECURSIVE InsertDesc(_, _)
InsertDesc(s, sorted) ==
    IF sorted = <<>> THEN <<s>>
    ELSE IF Head(sorted)[1] >= s[1]
         THEN <<Head(sorted)>> \o InsertDesc(s, Tail(sorted))
         ELSE <<s>> \o sorted

\* mutant of SortDescByStart: reverse=True left out (ascending by start)
RECURSIVE SortAscByStart(_)
SortAscByStart(ss) ==
    IF ss = <<>> THEN <<>>
    ELSE LET rest == SortAscByStart(Tail(ss))
             before == SelectSeq(rest, LAMBDA t : t[1] < Head(ss)[1])
             after == SelectSeq(rest, LAMBDA t : t[1] >= Head(ss)[1])
         IN before \o <<Head(ss)>> \o after

\* spans.sort(key=lambda t: t[0], reverse=True): stable, descending by start
RECURSIVE SortDescByStart(_)
SortDescByStart(ss) ==
    IF ss = <<>> THEN <<>>
    ELSE InsertDesc(ss[Len(ss)], SortDescByStart(SubSeq(ss, 1, Len(ss) - 1)))

\* util.build_tab_spans
build_tab_spans(centers, w, L) == SortDescByStart(AppendSpans(centers, w, L))

\* wavy.generate_organic_ribs, "Precompute tab spans": the same loop and sort,
\* run only when add_tabs
organic_tab_spans(tabs, centers, w, L) ==
    IF tabs THEN SortDescByStart(AppendSpans(centers, w, L)) ELSE <<>>

\* backer.build_backer_panel, "Build tab spans along rib length": the same
\* loop, not sorted (rib_length_in was floored at 0.01 before; the lengths
\* enumerated are >= 1, which the floor leaves alone)
backer_tab_spans(centers, w, L) == AppendSpans(centers, w, L)

----------------------------------------------------------------------------
(* util.smooth_series *)

\* series values are held in units of 1 / SmoothScale, so that the three
\* tap average 0.25 * a + 0.5 * b + 0.25 * c = (a + 2b + c) / 4 is exact in
\* every pass
SmoothScale == 4 ^ MaxPasses
\* sample values (in whole units) that the enumerated series are made of
SmoothSamples == {-1, 0, 2}

\* 0.25 * out[j - 1] + 0.5 * out[j] + 0.25 * out[j + 1]
ThreeTap(out, j) == (out[j - 1] + 2 * out[j] + out[j + 1]) \div 4

\* mutant of RebuildSeries: the pass updates the list in place, so that the
\* average at i reads the value already written at i - 1
RECURSIVE InPlaceFrom(_, _)
InPlaceFrom(out, j) ==
    IF j >= Len(out) THEN out
    ELSE InPlaceFrom([out EXCEPT ![j] = ThreeTap(out, j)], j + 1)
RebuildSeriesInPlace(out) == InPlaceFrom(out, 2)

\* [out[0]] + [three tap average for i in range(1, len(out) - 1)] + [out[-1]]
RebuildSeries(out) ==
    <<out[1]>> \o [j \in 1 .. Len(out) - 2 |-> ThreeTap(out, j + 1)] \o <<out[Len(out)]>>

\* mutant of SmoothIteration: the test "if len(out) < 3: return out" left out
\* (out[0] of an empty list raises IndexError)
SmoothIterationNoLengthTest(out) ==
    IF out = <<>> THEN [kind |-> "raise", out |-> out]
    ELSE [kind |-> "continue", out |-> RebuildSeries(out)]

\* one iteration of "for _ in range(passes)": return out when it has fewer
\* than 3 values, else rebuild it
SmoothIteration(out) ==
    IF Len(out) < 3 THEN [kind |-> "return", out |-> out]
    ELSE [kind |-> "continue", out |-> RebuildSeries(out)]

\* "if passes <= 0: return values"
SmoothEarlyReturn(passes) == passes <= 0

----------------------------------------------------------------------------
(* wavy.generate_organic_ribs: the profile of one rib *)

\* CommandExecuteHandler.notify: the centres handed to generate_organic_ribs
\* are [] without tabs, the parsed list with tabs, and [16, 32] when that
\* list is empty
DialogTabCentres(tabs, parsed) ==
    IF ~tabs THEN <<>>
    ELSE IF parsed = <<>> THEN <<16, 32>> ELSE parsed

\* z = rib_height_in - wave, clamped into [0, rib_height_in]; wave stands for
\* the term env * (Ai * bulge) * sin(...)
\* mutant of SampleHeight: the height is not held to [0, H]
SampleHeightUnclamped(H, wave) == H - wave

SampleHeight(H, wave) == Max(0, Min(H, H - wave))

\* the fit points: x_in = rib_length_in * s / samples for s = 0 .. samples,
\* each added as Point3D(cm(x_in), cm(z), 0)
FitPoints(L, H, waves) ==
    [s \in 1 .. Samples + 1 |->
        <<cm((L * (s - 1)) \div Samples), cm(SampleHeight(H, waves[s]))>>]

\* mutant of TabBottom: the sign of the tab depth lost
TabBottomAbove(h) == h

\* tab_bottom_z = -tab_height_in
TabBottom(h) == -h

\* mutant of TabDetour: the walk always moves to t1 first (the test
\* "if cur_x > t1" left out)
TabDetourAlwaysMove(cur, pt, span, h) ==
    LET t0 == span[1]
        t1 == span[2]
        a == <<cm(t1), cm(0)>>
        b == <<cm(t1), cm(TabBottom(h))>>
        c == <<cm(t0), cm(TabBottom(h))>>
        d == <<cm(t0), cm(0)>>
    IN [lines |-> << <<pt, a>>, <<a, b>>, <<b, c>>, <<c, d>> >>,
        cur_x |-> t0, p |-> d]

\* one iteration of "for (t0, t1) in tab_spans": along the baseline to t1 if
\* the walk is right of it, then down, left to t0 and up again
TabDetour(cur, pt, span, h) ==
    LET t0 == span[1]
        t1 == span[2]
        moved == cur > t1
        a == IF moved THEN <<cm(t1), cm(0)>> ELSE pt
        x == IF moved THEN t1 ELSE cur
        b == <<cm(x), cm(TabBottom(h))>>
        c == <<cm(t0), cm(TabBottom(h))>>
        d == <<cm(t0), cm(0)>>
    IN [lines |-> (IF moved THEN << <<pt, a>> >> ELSE <<>>)
                     \o << <<a, b>>, <<b, c>>, <<c, d>> >>,
        cur_x |-> t0, p |-> d]

\* the edges of the sketch in the order drawn: the free edge through the fit
\* points, then the lines
SketchEdges(fp, ln) == [j \in 1 .. Len(fp) - 1 |-> <<fp[j], fp[j + 1]>>] \o ln

\* twice the signed area a closed chain of edges encloses (shoelace sum)
RECURSIVE ShoelaceFrom(_, _)
ShoelaceFrom(E, j) ==
    IF j > Len(E) THEN 0
    ELSE E[j][1][1] * E[j][2][2] - E[j][2][1] * E[j][1][2] + ShoelaceFrom(E, j + 1)

\* sk.profiles.count, the host's answer: the sketch holds a closed profile
\* exactly when its curves enclose area
ProfileCount(fp, ln) == IF ShoelaceFrom(SketchEdges(fp, ln), 1) = 0 THEN 0 ELSE 1

----------------------------------------------------------------------------
(* Values the variables of the other specifications rest at *)

IdleTabs == builder = "none" /\ spans = <<>>

IdleSmooth ==
    /\ sm_values = <<>> /\ sm_passes = 0 /\ sm_out = <<>>
    /\ sm_iter = 0 /\ sm_trace = <<>> /\ sm_pc = "idle"

IdleRibs ==
    /\ pc = "idle" /\ tab_spans = <<>> /\ i = 0 /\ fitPts = <<>> /\ lines = <<>>
    /\ cur_x = 0 /\ p = <<0, 0>> /\ k = 0
    /\ occs = {} /\ bodies = {} /\ placed = {} /\ messages = <<>>
    /\ transforms = <<>>

IdleOrganic ==
    /\ seed = 0 /\ randomness = 0 /\ base_amp_in = 0 /\ base_period_in = 3
    /\ use_end_fade = FALSE
    /\ warp_strength_in = 0 /\ rib_thickness_in = 1 /\ gap_between_ribs_in = 0
    /\ master = <<>> /\ rib_rng = <<>> /\ streams = <<>>
    /\ global_warp_components = <<>> /\ rib_params = <<>>
    /\ env_vals = <<>> /\ x_vals = <<>> /\ ribs_out = <<>>
    /\ entropy = 0 /\ runs = <<>>

\* mutant of Placement: the rib is stacked along X whatever the layout
PlacementAlongX(rib, pitch, along_y) ==
    [translation |-> <<cm(rib * pitch), 0, 0>>, rotation |-> "identity"]

\* m = Matrix3D.create(); m.translation = (0, cm(i * pitch), 0) when
\* layout_along_y, else (cm(i * pitch), 0, 0)
Placement(rib, pitch, along_y) ==
    [translation |-> IF along_y THEN <<0, cm(rib * pitch), 0>>
                     ELSE <<cm(rib * pitch), 0, 0>>,
     rotation |-> "identity"]

IdleHost ==
    /\ container_transform = "none" /\ root_occs = <<>> /\ footprints = <<>>
    /\ last_call = <<>> /\ pockets = <<>>

IdleFlow ==
    /\ dialog = <<>> /\ args = <<>> /\ fields = <<>> /\ mass = <<>> /\ draws = 0
    /\ y_center_vals = <<>> /\ y_smooth = <<>> /\ progress = "none"
    /\ field_vals = <<>>

----------------------------------------------------------------------------
(* SpecTabs: the span builders on bounded inputs *)

InitTabs ==
    /\ tab_centers_in \in SeqsUpTo(Centers, MaxTabs)
    /\ tab_width_in \in Widths
    /\ rib_length_in \in Lengths
    /\ add_tabs \in BOOLEAN
    /\ tab_height_in = 1 /\ rib_height_in = 1 /\ rib_count = 1
    /\ IdleTabs /\ IdleSmooth /\ IdleRibs /\ IdleOrganic /\ IdleFlow
    /\ IdleHost /\ layout_along_y = TRUE

\* a call of util.build_tab_spans
CallBuildTabSpans ==
    /\ builder = "none"
    /\ spans' = build_tab_spans(tab_centers_in, tab_width_in, rib_length_in)
    /\ builder' = "util"
    /\ UNCHANGED <<inputVars, smoothVars, ribVars, organicVars, flowVars, hostVars>>

\* the span precomputation of generate_organic_ribs
OrganicTabSpans ==
    /\ builder = "none"
    /\ spans' = organic_tab_spans(add_tabs, tab_centers_in, tab_width_in, rib_length_in)
    /\ builder' = "organic"
    /\ UNCHANGED <<inputVars, smoothVars, ribVars, organicVars, flowVars, hostVars>>

\* the span loop of build_backer_panel, reached only past the early return
\* "if not add_tabs or not tab_centers_in"
BackerTabSpans ==
    /\ builder = "none"
    /\ add_tabs /\ tab_centers_in # <<>>
    /\ spans' = backer_tab_spans(tab_centers_in, tab_width_in, rib_length_in)
    /\ builder' = "backer"
    /\ UNCHANGED <<inputVars, smoothVars, ribVars, organicVars, flowVars, hostVars>>

NextTabs == CallBuildTabSpans \/ OrganicTabSpans \/ BackerTabSpans

SpecTabs == InitTabs /\ [][NextTabs]_vars

----------------------------------------------------------------------------
(* Claims on the span builders (checked under SpecTabs) *)

\* the spans were produced by a builder that ran its loop
SpansBuilt == builder \in {"util", "backer"} \/ (builder = "organic" /\ add_tabs)

\* the spans were produced by a builder that also sorts
SpansSorted == builder = "util" \/ (builder = "organic" /\ add_tabs)

\* indices of the centres whose interval [c - w/2, c + w/2], cut to
\* [0, rib_length_in], equals s
CentresOf(s) ==
    {j \in 1 .. Len(tab_centers_in) :
        /\ s[1] = Max(0, tab_centers_in[j] - (tab_width_in \div 2))
        /\ s[2] = Min(rib_length_in, tab_centers_in[j] + (tab_width_in \div 2))}

\* C1: every span a builder returns satisfies 0 <= start < end <= rib_length
\* and end - start <= tab width, and has the full tab width only if it comes
\* from a centre neither of whose bounds was clamped.
C1_TabSpanContainment ==
    SpansBuilt =>
        \A j \in 1 .. Len(spans) :
            LET s == spans[j] IN
            /\ 0 <= s[1] /\ s[1] < s[2] /\ s[2] <= rib_length_in
            /\ s[2] - s[1] <= tab_width_in
            /\ CentresOf(s) # {}
            /\ s[2] - s[1] = tab_width_in =>
                  \A c \in CentresOf(s) :
                      /\ tab_centers_in[c] - (tab_width_in \div 2) >= 0
                      /\ tab_centers_in[c] + (tab_width_in \div 2) <= rib_length_in

\* C1 witness: a builder returned a span cut short by clamping next to a
\* span of the full width.
C1_Witness ==
    /\ SpansBuilt
    /\ \E j, l \in 1 .. Len(spans) :
          /\ spans[j][2] - spans[j][1] = tab_width_in
          /\ spans[l][2] - spans[l][1] < tab_width_in

\* indices of the centres whose clamped interval is non-empty
KeptCentres ==
    {j \in 1 .. Len(tab_centers_in) :
        Min(rib_length_in, tab_centers_in[j] + (tab_width_in \div 2))
            > Max(0, tab_centers_in[j] - (tab_width_in \div 2))}

\* C2: build_tab_spans returns exactly one interval
\* (max(0, c - w/2), min(L, c + w/2)) per centre whose interval is non-empty,
\* drops the other centres, merges nothing and orders the result by
\* descending start; centres [16, 32], width 4, length 48 give
\* [(30, 34), (14, 18)].
C2_OneSpanPerCentreDescending ==
    SpansSorted =>
        /\ Len(spans) = Cardinality(KeptCentres)
        /\ \A j \in 1 .. Len(spans) :
              /\ CentresOf(spans[j]) # {}
              /\ Cardinality({l \in 1 .. Len(spans) : spans[l] = spans[j]})
                    = Cardinality(CentresOf(spans[j]))
        /\ \A j, l \in 1 .. Len(spans) : j < l => spans[j][1] >= spans[l][1]
        /\ (tab_centers_in = <<16, 32>> /\ tab_width_in = 4 /\ rib_length_in = 48)
              => spans = << <<30, 34>>, <<14, 18>> >>

\* C2 witness: build_tab_spans ran on the centres [16, 32], width 4, length 48.
C2_Witness ==
    /\ builder = "util"
    /\ tab_centers_in = <<16, 32>> /\ tab_width_in = 4 /\ rib_length_in = 48
    /\ Len(spans) = 2

\* two spans share an interior point
Overlap(s, t) == s[1] < t[2] /\ t[1] < s[2]

\* no two entries of the list share an interior point
NonOverlapping(ss) ==
    \A j, l \in 1 .. Len(ss) : j # l => ~Overlap(ss[j], ss[l])

\* the centres are pairwise at least one tab width apart
CentresApart ==
    \A j, l \in 1 .. Len(tab_centers_in) :
        j # l => \/ tab_centers_in[j] - tab_centers_in[l] >= tab_width_in
                 \/ tab_centers_in[l] - tab_centers_in[j] >= tab_width_in

\* C3 as stated: the spans a builder returns are mutually non-overlapping for
\* any list of centres and any width.
C3_SpansNeverOverlap == SpansSorted => NonOverlapping(spans)

\* C3 amended: the spans are mutually non-overlapping whenever the centres
\* are pairwise at least one tab width apart.
C3_SpansOfSeparatedCentresDisjoint ==
    (SpansSorted /\ CentresApart) => NonOverlapping(spans)

\* C3 witness: two centres at least one width apart each gave a span.
C3_Witness == SpansSorted /\ CentresApart /\ Len(spans) = 2

----------------------------------------------------------------------------
(* SpecSmooth: util.smooth_series on bounded inputs *)

InitSmooth ==
    /\ \E n \in 0 .. MaxLen :
          sm_values \in [1 .. n -> {v * SmoothScale : v \in SmoothSamples}]
    /\ sm_passes \in -1 .. MaxPasses
    /\ sm_out = <<>> /\ sm_iter = 0 /\ sm_trace = <<>> /\ sm_pc = "call"
    /\ tab_centers_in = <<>> /\ tab_width_in = 2 /\ tab_height_in = 1
    /\ rib_length_in = 48 /\ rib_height_in = 1 /\ rib_count = 1 /\ add_tabs = FALSE
    /\ IdleTabs /\ IdleRibs /\ IdleOrganic /\ IdleFlow
    /\ IdleHost /\ layout_along_y = TRUE

\* entry: "if passes <= 0: return values", else "out = list(values)"
SmoothEnter ==
    /\ sm_pc = "call"
    /\ sm_out' = sm_values
    /\ sm_pc' = IF SmoothEarlyReturn(sm_passes) THEN "returned" ELSE "loop"
    /\ sm_trace' = <<sm_values>>
    /\ UNCHANGED <<sm_values, sm_passes, sm_iter, inputVars, tabVars, ribVars, organicVars, flowVars, hostVars>>

\* one iteration of the loop
SmoothPass ==
    /\ sm_pc = "loop"
    /\ sm_iter < sm_passes
    /\ LET r == SmoothIteration(sm_out) IN
        /\ sm_out' = r.out
        /\ sm_pc' = CASE r.kind = "continue" -> "loop"
                      [] r.kind = "return" -> "returned"
                      [] OTHER -> "raised"
        /\ sm_iter' = IF r.kind = "continue" THEN sm_iter + 1 ELSE sm_iter
        /\ sm_trace' = IF r.kind = "continue" THEN Append(sm_trace, r.out) ELSE sm_trace
    /\ UNCHANGED <<sm_values, sm_passes, inputVars, tabVars, ribVars, organicVars, flowVars, hostVars>>

\* the loop is exhausted: "return out"
SmoothReturn ==
    /\ sm_pc = "loop"
    /\ sm_iter >= sm_passes
    /\ sm_pc' = "returned"
    /\ UNCHANGED <<sm_values, sm_passes, sm_out, sm_iter, sm_trace,
                   inputVars, tabVars, ribVars, organicVars, flowVars, hostVars>>

NextSmooth == SmoothEnter \/ SmoothPass \/ SmoothReturn

SpecSmooth == InitSmooth /\ [][NextSmooth]_vars

----------------------------------------------------------------------------
(* Claims on smooth_series (checked under SpecSmooth) *)

\* C4: smooth_series returns a series equal element for element to its input
\* whenever passes <= 0 or the input has fewer than 3 values, and does not
\* raise in those cases.
C4_SmoothIdentity ==
    (sm_passes <= 0 \/ Len(sm_values) < 3) =>
        /\ sm_pc # "raised"
        /\ sm_pc = "loop" => sm_iter = 0
        /\ sm_pc = "returned" =>
              /\ Len(sm_out) = Len(sm_values)
              /\ \A j \in 1 .. Len(sm_values) : sm_out[j] = sm_values[j]

\* C4 witness: smooth_series returned for passes >= 1 and an input of two
\* different values.
C4_Witness ==
    /\ sm_pc = "returned" /\ sm_passes >= 1
    /\ Len(sm_values) = 2 /\ sm_values[1] # sm_values[2]

\* C5: for passes >= 1 and an input of length n >= 3 the result has length n
\* and the input's first and last values, exactly `passes` passes are made,
\* and each pass sets every interior value i to
\* 0.25 * prev[i-1] + 0.5 * prev[i] + 0.25 * prev[i+1], prev being the series
\* before that pass.
C5_SmoothKernel ==
    (sm_passes >= 1 /\ Len(sm_values) >= 3 /\ sm_pc \in {"loop", "returned"}) =>
        LET n == Len(sm_values) IN
        /\ Len(sm_out) = n
        /\ sm_out[1] = sm_values[1] /\ sm_out[n] = sm_values[n]
        /\ Len(sm_trace) = sm_iter + 1
        /\ sm_trace[1] = sm_values /\ sm_trace[Len(sm_trace)] = sm_out
        /\ \A t \in 2 .. Len(sm_trace) :
              /\ Len(sm_trace[t]) = n
              /\ \A j \in 2 .. n - 1 :
                    4 * sm_trace[t][j] = sm_trace[t - 1][j - 1]
                                          + 2 * sm_trace[t - 1][j]
                                          + sm_trace[t - 1][j + 1]
        /\ sm_pc = "returned" => sm_iter = sm_passes

\* C5 witness: two passes over a series of four values were returned and
\* moved an interior value.
C5_Witness ==
    /\ sm_pc = "returned" /\ sm_passes = 2 /\ Len(sm_values) = 4
    /\ sm_out[2] # sm_values[2] /\ sm_out[3] # sm_trace[2][3]

----------------------------------------------------------------------------
(* Spec: one run of wavy.generate_organic_ribs *)

Init ==
    /\ add_tabs \in BOOLEAN
    /\ \E parsed \in SeqsUpTo(DialogCenters, MaxTabs) :
          tab_centers_in = DialogTabCentres(add_tabs, parsed)
    /\ tab_width_in \in Widths
    /\ tab_height_in \in TabHeights
    /\ rib_length_in = 48
    /\ rib_height_in = 1
    /\ rib_count \in 1 .. MaxRibs
    /\ pc = "start" /\ tab_spans = <<>> /\ i = 0 /\ fitPts = <<>> /\ lines = <<>>
    /\ cur_x = 0 /\ p = <<0, 0>> /\ k = 0
    /\ occs = {} /\ bodies = {} /\ placed = {} /\ messages = <<>>
    /\ transforms = <<>>
    /\ IdleTabs /\ IdleSmooth /\ IdleOrganic /\ IdleHost
    /\ layout_along_y = TRUE /\ IdleFlow

\* up to the rib loop: the container, the tab spans, the shared warp and the
\* per rib parameters
PrecomputeTabSpans ==
    /\ pc = "start"
    /\ tab_spans' = organic_tab_spans(add_tabs, tab_centers_in, tab_width_in, rib_length_in)
    /\ pc' = "rib"
    /\ UNCHANGED <<i, fitPts, lines, cur_x, p, k, occs, bodies, placed, transforms, messages,
                   inputVars, tabVars, smoothVars, organicVars, flowVars, hostVars>>

\* rib i: its occurrence and sketch, the free edge through the sampled
\* heights, the line closing the right end, the start of the baseline walk
SketchFreeEdge ==
    /\ pc = "rib" /\ i < rib_count
    /\ \E waves \in [1 .. Samples + 1 -> Waves] :
          LET fp == FitPoints(rib_length_in, rib_height_in, waves) IN
          /\ fitPts' = fp
          /\ lines' = << <<  <<cm(rib_length_in), cm(inches(fp[Len(fp)][2]))>>,
                             <<cm(rib_length_in), cm(0)>>  >> >>
    /\ occs' = occs \cup {i}
    /\ cur_x' = rib_length_in
    /\ p' = <<cm(rib_length_in), cm(0)>>
    /\ k' = 0
    /\ pc' = "walk"
    /\ UNCHANGED <<tab_spans, i, bodies, placed, transforms, messages,
                   inputVars, tabVars, smoothVars, organicVars, flowVars, hostVars>>

\* one iteration of the loop over tab_spans
WalkTab ==
    /\ pc = "walk"
    /\ add_tabs /\ Len(tab_spans) > 0 /\ k < Len(tab_spans)
    /\ LET r == TabDetour(cur_x, p, tab_spans[k + 1], tab_height_in) IN
        /\ lines' = lines \o r.lines
        /\ cur_x' = r.cur_x
        /\ p' = r.p
    /\ k' = k + 1
    /\ UNCHANGED <<pc, tab_spans, i, fitPts, occs, bodies, placed, transforms, messages,
                   inputVars, tabVars, smoothVars, organicVars, flowVars, hostVars>>

\* after the last tab: the rest of the baseline to x = 0 if the walk is not
\* there yet, then the line closing the left end
CloseAfterTabs ==
    /\ pc = "walk"
    /\ add_tabs /\ Len(tab_spans) > 0 /\ k = Len(tab_spans)
    /\ lines' = lines
                \o (IF cur_x > 0 THEN << <<p, <<cm(0), cm(0)>> >> >> ELSE <<>>)
                \o << << <<cm(0), cm(0)>>, <<cm(0), cm(inches(fitPts[1][2]))>> >> >>
    /\ p' = IF cur_x > 0 THEN <<cm(0), cm(0)>> ELSE p
    /\ cur_x' = IF cur_x > 0 THEN 0 ELSE cur_x
    /\ pc' = "check"
    /\ UNCHANGED <<tab_spans, i, fitPts, k, occs, bodies, placed, transforms, messages,
                   inputVars, tabVars, smoothVars, organicVars, flowVars, hostVars>>

\* without tabs: the whole baseline in one line, then the line closing the
\* left end
CloseWithoutTabs ==
    /\ pc = "walk"
    /\ ~(add_tabs /\ Len(tab_spans) > 0)
    /\ lines' = lines
                \o << <<p, <<cm(0), cm(0)>> >> >>
                \o << << <<cm(0), cm(0)>>, <<cm(0), cm(inches(fitPts[1][2]))>> >> >>
    /\ p' = <<cm(0), cm(0)>>
    /\ cur_x' = 0
    /\ pc' = "check"
    /\ UNCHANGED <<tab_spans, i, fitPts, k, occs, bodies, placed, transforms, messages,
                   inputVars, tabVars, smoothVars, organicVars, flowVars, hostVars>>

\* mutant of ProfileFailed: the failure is noted and the loop goes on with the
\* next rib
ProfileFailedContinues ==
    /\ pc = "check"
    /\ ProfileCount(fitPts, lines) = 0
    /\ messages' = Append(messages, <<"Profile failed on rib", i + 1>>)
    /\ i' = i + 1
    /\ pc' = "rib"
    /\ UNCHANGED <<tab_spans, fitPts, lines, cur_x, p, k, occs, bodies, placed, transforms,
                   inputVars, tabVars, smoothVars, organicVars, flowVars, hostVars>>

\* mutant of ProfileFailed: the sketch without a profile is extruded and
\* placed all the same
ProfileFailedExtrudes ==
    /\ pc = "check"
    /\ ProfileCount(fitPts, lines) = 0
    /\ messages' = Append(messages, <<"Profile failed on rib", i + 1>>)
    /\ bodies' = bodies \cup {i}
    /\ placed' = placed \cup {i}
    /\ transforms' = Append(transforms,
           Placement(i, rib_thickness_in + gap_between_ribs_in,
                     layout_along_y))
    /\ pc' = "done"
    /\ UNCHANGED <<tab_spans, i, fitPts, lines, cur_x, p, k, occs,
                   inputVars, tabVars, smoothVars, organicVars, flowVars, hostVars>>

\* "if sk.profiles.count == 0": the message box and return
ProfileFailed ==
    /\ pc = "check"
    /\ ProfileCount(fitPts, lines) = 0
    /\ messages' = Append(messages, <<"Profile failed on rib", i + 1>>)
    /\ pc' = "done"
    /\ UNCHANGED <<tab_spans, i, fitPts, lines, cur_x, p, k, occs, bodies, placed, transforms,
                   inputVars, tabVars, smoothVars, organicVars, flowVars, hostVars>>

\* the profile is extruded, the occurrence is placed, the loop goes on
ExtrudeAndPlace ==
    /\ pc = "check"
    /\ ProfileCount(fitPts, lines) # 0
    /\ bodies' = bodies \cup {i}
    /\ placed' = placed \cup {i}
    /\ transforms' = Append(transforms,
           Placement(i, rib_thickness_in + gap_between_ribs_in,
                     layout_along_y))
    /\ i' = i + 1
    /\ pc' = "rib"
    /\ UNCHANGED <<tab_spans, fitPts, lines, cur_x, p, k, occs, messages,
                   inputVars, tabVars, smoothVars, organicVars, flowVars, hostVars>>

\* after the loop: the closing message box
ReportGenerated ==
    /\ pc = "rib" /\ i >= rib_count
    /\ messages' = Append(messages, <<"Organic ribs generated", rib_count>>)
    /\ pc' = "done"
    /\ UNCHANGED <<tab_spans, i, fitPts, lines, cur_x, p, k, occs, bodies, placed, transforms,
                   inputVars, tabVars, smoothVars, organicVars, flowVars, hostVars>>

Next ==
    \/ PrecomputeTabSpans
    \/ SketchFreeEdge
    \/ WalkTab
    \/ CloseAfterTabs
    \/ CloseWithoutTabs
    \/ ProfileFailed
    \/ ExtrudeAndPlace
    \/ ReportGenerated

Spec == Init /\ [][Next]_vars

----------------------------------------------------------------------------
(* Claims on the rib outline (checked under Spec) *)

\* the outline of rib i is complete: every curve of its sketch is drawn
OutlineDrawn == pc = "check"

\* the outline is handed on: the host found a profile in the sketch
OutlineEmitted == OutlineDrawn /\ ProfileCount(fitPts, lines) # 0

\* the edges of the outline of rib i, in traversal order
Outline == SketchEdges(fitPts, lines)

\* the vertices of the outline, in traversal order
OutlineVertices == [j \in 1 .. Len(Outline) |-> Outline[j][1]]

\* every edge starts where the edge before it ends, the first where the
\* last ends
ClosedChain(E) ==
    \A j \in 1 .. Len(E) : E[j][2] = E[(j % Len(E)) + 1][1]

\* (b - a) x (c - a)
Cross(a, b, c) == (b[1] - a[1]) * (c[2] - a[2]) - (b[2] - a[2]) * (c[1] - a[1])

\* the point q lies on the segment from a to b
OnSegment(a, b, q) ==
    /\ Cross(a, b, q) = 0
    /\ Min(a[1], b[1]) <= q[1] /\ q[1] <= Max(a[1], b[1])
    /\ Min(a[2], b[2]) <= q[2] /\ q[2] <= Max(a[2], b[2])

\* q and r lie strictly on different sides of the line through a and b
OppositeSides(a, b, q, r) ==
    \/ Cross(a, b, q) > 0 /\ Cross(a, b, r) < 0
    \/ Cross(a, b, q) < 0 /\ Cross(a, b, r) > 0

\* the segments e and f have a point in common
SegmentsMeet(e, f) ==
    \/ OnSegment(e[1], e[2], f[1]) \/ OnSegment(e[1], e[2], f[2])
    \/ OnSegment(f[1], f[2], e[1]) \/ OnSegment(f[1], f[2], e[2])
    \/ /\ OppositeSides(e[1], e[2], f[1], f[2])
       /\ OppositeSides(f[1], f[2], e[1], e[2])

\* the edge f follows the edge e and runs back over it, or one of the two
\* has no length
FoldsBack(e, f) ==
    \/ e[1] = e[2] \/ f[1] = f[2]
    \/ OnSegment(e[1], e[2], f[2])
    \/ OnSegment(f[1], f[2], e[1])

\* a closed chain of edges is a simple polygon: edges that follow each other
\* share their common vertex only, other edges share no point
SimplePolygon(E) ==
    /\ ClosedChain(E)
    /\ \A j, l \in 1 .. Len(E) :
          j < l =>
            IF l = j + 1 THEN ~FoldsBack(E[j], E[l])
            ELSE IF j = 1 /\ l = Len(E) THEN ~FoldsBack(E[l], E[j])
            ELSE ~SegmentsMeet(E[j], E[l])

\* C6: every rib outline the profile builder emits has at least 4 vertices,
\* no two consecutive vertices equal, and encloses non-zero area.
C6_EmittedOutlineWellFormed ==
    OutlineEmitted =>
        /\ Len(OutlineVertices) >= 4
        /\ ClosedChain(Outline)
        /\ \A j \in 1 .. Len(Outline) : Outline[j][1] # Outline[j][2]
        /\ ShoelaceFrom(Outline, 1) # 0

\* C7: the baseline walk starts at x = rib_length on the baseline and ends at
\* x = 0, every line of the walk starts where the line before it ends, and no
\* line of the walk ends right of where it starts, so that cur_x never
\* increases.
C7_BaselineWalkMonotone ==
    pc \in {"walk", "check"} =>
        /\ lines[1][2] = <<cm(rib_length_in), 0>>
        /\ \A j \in 2 .. Len(lines) :
              /\ lines[j][1] = lines[j - 1][2]
              /\ lines[j][2][1] <= lines[j][1][1]
        /\ 0 <= cur_x /\ cur_x <= rib_length_in
        /\ p = <<cm(cur_x), 0>>
        /\ pc = "walk" => p = lines[Len(lines)][2]
        /\ pc = "check" => cur_x = 0

\* C7 witness: the walk of a rib ended after two overlapping tab spans.
C7_Witness ==
    /\ pc = "check" /\ add_tabs /\ Len(tab_spans) = 2
    /\ Overlap(tab_spans[1], tab_spans[2])
    /\ Len(lines) >= 8

\* C8: if the tab spans of a rib are pairwise non-overlapping and the notch
\* depth does not exceed the distance from the baseline to the free edge at
\* any sample, the outline is a simple polygon.
C8_OutlineSimple ==
    ( /\ OutlineDrawn
      /\ NonOverlapping(tab_spans)
      /\ tab_height_in > 0
      /\ \A j \in 1 .. Len(fitPts) : cm(tab_height_in) <= fitPts[j][2] )
    => SimplePolygon(Outline)

\* the outline holds, as four consecutive vertices, the rectangular detour
\* (t1, 0), (t1, -h), (t0, -h), (t0, 0)
HasDetour(V, t0, t1, h) ==
    \E j \in 1 .. Len(V) - 3 :
        /\ V[j] = <<cm(t1), 0>>
        /\ V[j + 1] = <<cm(t1), -cm(h)>>
        /\ V[j + 2] = <<cm(t0), -cm(h)>>
        /\ V[j + 3] = <<cm(t0), 0>>

\* C9 as stated: for every tab span (t0, t1) of a rib the outline holds the
\* detour (t1, 0), (t1, -tab_height), (t0, -tab_height), (t0, 0).
C9_EveryTabIsRectangularDetour ==
    (OutlineDrawn /\ add_tabs) =>
        \A m \in 1 .. Len(tab_spans) :
            HasDetour(OutlineVertices, tab_spans[m][1], tab_spans[m][2], tab_height_in)

\* C9 amended: the outline holds that detour for every tab span that does
\* not overlap the span walked before it, that is the first span and every
\* span ending at or left of the start of its predecessor in the list.
C9_SeparateTabIsRectangularDetour ==
    (OutlineDrawn /\ add_tabs) =>
        \A m \in 1 .. Len(tab_spans) :
            (m = 1 \/ tab_spans[m][2] <= tab_spans[m - 1][1]) =>
                HasDetour(OutlineVertices, tab_spans[m][1], tab_spans[m][2], tab_height_in)

\* C9 witness: an outline with two tab spans that do not overlap and a tab
\* height above zero is drawn.
C9_Witness ==
    /\ OutlineDrawn /\ add_tabs /\ Len(tab_spans) = 2
    /\ ~Overlap(tab_spans[1], tab_spans[2])
    /\ tab_height_in > 0

\* C10 as stated: a profile failure on a rib does not stop the run: when the
\* run ends every rib index was computed, and each rib was either built or
\* reported.
C10_FailureDoesNotStopRun ==
    pc = "done" =>
        \A r \in 0 .. rib_count - 1 :
            /\ r \in occs
            /\ \/ r \in bodies
               \/ \E m \in 1 .. Len(messages) :
                     messages[m] = <<"Profile failed on rib", r + 1>>

\* C10 amended: a profile failure on rib i ends the run there: it is reported
\* at once, as rib number i + 1 and as the last message, the ribs before i
\* are built and stay, and no rib after i is computed.
C10_FailureStopsRun ==
    \A m \in 1 .. Len(messages) :
        messages[m][1] = "Profile failed on rib" =>
            /\ pc = "done"
            /\ m = Len(messages)
            /\ messages[m][2] = i + 1
            /\ occs = 0 .. i
            /\ bodies = 0 .. i - 1

\* C10 witness: the run ended on the failure of a rib that was not the last.
C10_Witness ==
    /\ pc = "done" /\ i + 1 < rib_count
    /\ messages = << <<"Profile failed on rib", i + 1>> >>

----------------------------------------------------------------------------
(* Claims on failure reporting (checked under Spec) *)

\* C11: when the sketch of rib i holds no closed profile, the step that
\* follows reports the failure as rib number i + 1 and neither extrudes nor
\* places anything; a rib is extruded only from a sketch with a profile.
C11_FailedRibReportedNotBuilt ==
    [][ /\ (pc = "check" /\ ProfileCount(fitPts, lines) = 0) =>
            /\ messages' = Append(messages, <<"Profile failed on rib", i + 1>>)
            /\ bodies' = bodies
            /\ placed' = placed
        /\ (bodies' # bodies \/ placed' # placed) =>
            /\ pc = "check" /\ ProfileCount(fitPts, lines) # 0
            /\ bodies' = bodies \cup {i} /\ placed' = placed \cup {i} ]_vars

\* C11 witness: the second rib failed after the first was built; it is
\* reported as rib 2 and has an occurrence but no body and no placement.
C11_Witness ==
    /\ i = 1 /\ ProfileCount(fitPts, lines) = 0
    /\ messages # <<>> /\ messages[Len(messages)] = <<"Profile failed on rib", 2>>
    /\ bodies = {0} /\ placed = {0} /\ occs = {0, 1}

----------------------------------------------------------------------------
(* wavy.generate_organic_ribs: the random streams and the sampled heights  *)
(*                                                                         *)
(* Angles are kept in eighths of a turn and the sine is taken on the       *)
(* quarter turn at or below the angle (values -1, 0, 1).  A uniform draw   *)
(* takes the ends and the middle of its range.  The end envelope           *)
(* sin(pi t)^p is 0 at t = 0 and t = 1 and positive between; the positive  *)
(* values are taken at their maximum, 1.                                    *)

\* seeds typed into the dialog
Seeds == {-1, 1, 2}
\* wave amplitudes typed into the dialog (rib heights)
DialogAmps == {-1, 2}
\* wave periods (inches)
Periods == {3, 96}

Abs(a) == IF a < 0 THEN -a ELSE a

\* mutant of Random: the stream takes its seeding value from the host, as
\* random.Random() without an argument does
RandomUnseeded(sd) == [seed |-> entropy, n |-> 0]

\* random.Random(seed): a stream is its seeding value and the number of
\* draws made from it
Random(sd) == [seed |-> sd, n |-> 0]

\* the next raw output of a stream: fixed by the absolute seeding value and
\* the number of draws made before
RawDraw(rng) == (Abs(rng.seed) * 31 + rng.n * 17 + 7) % 12

\* the stream after one draw
Advance(rng) == [rng EXCEPT !.n = @ + 1]

\* rng.uniform(-1.0, 1.0)
UniformSigned(rng) == (RawDraw(rng) % 3) - 1

\* rng.uniform(0.0, 2 pi), in quarter turns
UniformPhase(rng) == RawDraw(rng) % 4

\* math.sin on quarter turns
Sin4(q) == CASE q % 4 = 1 -> 1 [] q % 4 = 3 -> -1 [] OTHER -> 0

\* the seed of the stream of rib i
RibSeed(sd, rib) == sd + rib * 10007

\* CommandExecuteHandler.notify: base_amp_in = min(base_amp_in, rib_height_in)
ClampAmplitude(amp, H) == Min(amp, H)

\* rib_params of one rib: five draws from its stream, in the order Ai, Pi,
\* phi0, local amp, local ph (amp_var, phase_jitter, bulge_strength = 1,
\* per_var = 0, smoothness = 0, warp_waves = 1; the bulge factor
\* 1 + randomness * exp(-d*d) is taken at d = 0)
RibParams(rng0, amp, period, r, count, warp) ==
    LET rng1 == Advance(rng0)
        rng2 == Advance(rng1)
        rng3 == Advance(rng2)
        rng4 == Advance(rng3)
    IN [Ai |-> amp * (1 + r * UniformSigned(rng0)),
        Pi |-> Max(3, period),
        phi0 |-> UniformPhase(rng2) * r,
        bulge |-> IF count > 1 THEN 1 + r ELSE 1,
        local |-> <<(warp * (25 + 75 * r) * UniformSigned(rng3)) \div 200,
                    UniformPhase(rng4)>>,
        rng |-> Advance(rng4)]

\* envelope(x_in, rib_rng): 1.0 without end fade; with it one draw for the
\* shift, t = x / L + shift clamped to [0, 1] (in thousandths; wildness = 0,
\* so the shift is 0.08 * 0.3 * randomness at most)
Envelope(x, rng, fade, r, L) ==
    IF ~fade THEN [value |-> 1, rng |-> rng]
    ELSE LET shift == UniformSigned(rng) * 24 * r
             t == Max(0, Min(1000, ((1000 * x) \div L) + shift))
         IN [value |-> IF t = 0 \/ t = 1000 THEN 0 ELSE 1, rng |-> Advance(rng)]

\* warp_total(x_in, local_components): the shared and the local component
warp_total(x, gwc, local, L) ==
    gwc[1] * Sin4(((4 * x) \div L) + gwc[2])
    + local[1] * Sin4(((4 * x) \div L) + local[2])

\* diag = diag_strength * (rib_t - 0.5) * (x / L) in eighths of a turn;
\* diag_strength is 2 pi * 0.5 * (0.25 + 0.75 * randomness) at wildness 0
DiagEighths(rib, count, x, r, L) ==
    LET num == IF count = 1 THEN -1 ELSE 2 * rib - (count - 1)
        den == IF count = 1 THEN 2 ELSE 2 * (count - 1)
    IN ((1 + 3 * r) * num * x) \div (den * L)

\* the wave term env * (Ai * bulge) * sin(2 pi (x + w) / Pi + phi0 + diag)
WaveTerm(env, rp, x, w, rib, count, r, L) ==
    env * (rp.Ai * rp.bulge)
        * Sin4((((8 * (x + w)) \div rp.Pi) + 2 * rp.phi0
                + DiagEighths(rib, count, x, r, L)) \div 2)

\* x_in = rib_length_in * s / samples
SamplePosition(L, s, n) == (L * s) \div n

\* the lines closing the profile of a rib without tabs
ClosingLines(fp, L) ==
    << << <<cm(L), cm(inches(fp[Len(fp)][2]))>>, <<cm(L), cm(0)>> >>,
       << <<cm(L), cm(0)>>, <<cm(0), cm(0)>> >>,
       << <<cm(0), cm(0)>>, <<cm(0), cm(inches(fp[1][2]))>> >> >>

----------------------------------------------------------------------------
(* SpecOrganic: a session of runs of wavy.generate_organic_ribs, each from *)
(* the dialog to the sampled outline points, the extrusion and the         *)
(* placement of every rib (ribs without tabs)                              *)

InitOrganic ==
    /\ rib_count \in 1 .. MaxRibs
    /\ randomness \in {0, 1}
    /\ base_amp_in \in {ClampAmplitude(a, 1) : a \in DialogAmps}
    /\ base_period_in \in Periods
    /\ rib_length_in = 48 /\ rib_height_in = 1
    /\ warp_strength_in = 24 /\ rib_thickness_in = 1 /\ gap_between_ribs_in = 0
    /\ add_tabs = FALSE /\ tab_centers_in = <<>> /\ tab_width_in = 2 /\ tab_height_in = 1
    /\ seed = 0 /\ use_end_fade = FALSE
    /\ master = <<>> /\ rib_rng = <<>> /\ streams = <<>>
    /\ global_warp_components = <<>> /\ rib_params = <<>>
    /\ env_vals = <<>> /\ x_vals = <<>> /\ ribs_out = <<>>
    /\ entropy = 0 /\ runs = <<>>
    /\ pc = "dialog" /\ tab_spans = <<>> /\ i = 0 /\ fitPts = <<>> /\ lines = <<>>
    /\ cur_x = 0 /\ p = <<0, 0>> /\ k = 0
    /\ occs = {} /\ bodies = {} /\ placed = {} /\ messages = <<>>
    /\ transforms = <<>>
    /\ IdleTabs /\ IdleSmooth /\ IdleFlow /\ IdleHost
    /\ layout_along_y \in BOOLEAN

\* CommandExecuteHandler.notify: the dialog is read and the generator is
\* called; nothing of the previous run is handed to it
ExecuteCommand ==
    /\ pc = "dialog" /\ Len(runs) < MaxRuns
    /\ seed' \in Seeds
    /\ use_end_fade' \in BOOLEAN
    /\ entropy' = entropy + 1
    /\ master' = <<>> /\ rib_rng' = <<>> /\ streams' = <<>>
    /\ global_warp_components' = <<>> /\ rib_params' = <<>>
    /\ env_vals' = <<>> /\ x_vals' = <<>> /\ ribs_out' = <<>>
    /\ i' = 0 /\ fitPts' = <<>> /\ lines' = <<>>
    /\ occs' = {} /\ bodies' = {} /\ placed' = {} /\ messages' = <<>>
    /\ transforms' = <<>>
    /\ pc' = "enter"
    /\ UNCHANGED <<randomness, base_amp_in, base_period_in, warp_strength_in,
                   rib_thickness_in, gap_between_ribs_in, runs,
                   tab_spans, cur_x, p, k, inputVars, tabVars, smoothVars, flowVars, hostVars>>

\* generate_organic_ribs up to the shared warp: the master stream, its draws
\* for the bulge centre (only with more than one rib) and sigma, then for
\* the one shared warp component
OrganicEnter ==
    /\ pc = "enter"
    /\ LET m0 == Random(seed)
           m1 == IF rib_count > 1 THEN Advance(m0) ELSE m0
           m2 == Advance(m1)
           m3 == Advance(m2)
       IN /\ global_warp_components' =
                 <<warp_strength_in * UniformSigned(m2), UniformPhase(m3)>>
          /\ master' = Advance(m3)
    /\ streams' = <<seed>>
    /\ rib_params' = <<>>
    /\ i' = 0
    /\ pc' = "params"
    /\ UNCHANGED <<seed, randomness, base_amp_in, base_period_in, use_end_fade,
                   warp_strength_in, rib_thickness_in, gap_between_ribs_in,
                   rib_rng, env_vals, x_vals, ribs_out, entropy, runs,
                   tab_spans, fitPts, lines, cur_x, p, k, occs, bodies, placed, transforms,
                   messages, inputVars, tabVars, smoothVars, flowVars, hostVars>>

\* one iteration of the loop that precomputes rib_params
OrganicRibParams ==
    /\ pc = "params" /\ i < rib_count
    /\ LET rp == RibParams(Random(RibSeed(seed, i)), base_amp_in, base_period_in,
                           randomness, rib_count, warp_strength_in)
       IN /\ rib_params' = Append(rib_params,
                 [Ai |-> rp.Ai, Pi |-> rp.Pi, phi0 |-> rp.phi0,
                  bulge |-> rp.bulge, local |-> rp.local])
          /\ rib_rng' = rp.rng
    /\ streams' = Append(streams, RibSeed(seed, i))
    /\ i' = i + 1
    /\ UNCHANGED <<seed, randomness, base_amp_in, base_period_in, use_end_fade,
                   warp_strength_in, rib_thickness_in, gap_between_ribs_in,
                   master, global_warp_components, env_vals, x_vals, ribs_out,
                   entropy, runs,
                   pc, tab_spans, fitPts, lines, cur_x, p, k, occs, bodies, placed, transforms,
                   messages, inputVars, tabVars, smoothVars, flowVars, hostVars>>

\* the precomputation is over: the build loop starts at rib 0
OrganicParamsDone ==
    /\ pc = "params" /\ i >= rib_count
    /\ i' = 0
    /\ pc' = "rib"
    /\ UNCHANGED <<tab_spans, fitPts, lines, cur_x, p, k, occs, bodies, placed, transforms,
                   messages, organicVars, inputVars, tabVars, smoothVars, flowVars, hostVars>>

\* rib i: its occurrence, its sketch and a fresh stream from the rib seed
OrganicRibBegin ==
    /\ pc = "rib" /\ i < rib_count
    /\ occs' = occs \cup {i}
    /\ rib_rng' = Random(RibSeed(seed, i))
    /\ streams' = Append(streams, RibSeed(seed, i))
    /\ fitPts' = <<>> /\ env_vals' = <<>> /\ x_vals' = <<>>
    /\ pc' = "sample"
    /\ UNCHANGED <<seed, randomness, base_amp_in, base_period_in, use_end_fade,
                   warp_strength_in, rib_thickness_in, gap_between_ribs_in,
                   master, global_warp_components, rib_params, ribs_out,
                   entropy, runs,
                   tab_spans, i, lines, cur_x, p, k, bodies, placed, transforms,
                   messages, inputVars, tabVars, smoothVars, flowVars, hostVars>>

\* one iteration of "for s in range(samples + 1)"
OrganicSample ==
    /\ pc = "sample" /\ Len(fitPts) < Samples + 1
    /\ LET x_in == SamplePosition(rib_length_in, Len(fitPts), Samples)
           e == Envelope(x_in, rib_rng, use_end_fade, randomness, rib_length_in)
           rp == rib_params[i + 1]
           w == warp_total(x_in, global_warp_components, rp.local, rib_length_in)
           z == SampleHeight(rib_height_in,
                    WaveTerm(e.value, rp, x_in, w, i, rib_count, randomness,
                             rib_length_in))
       IN /\ fitPts' = Append(fitPts, <<cm(x_in), cm(z)>>)
          /\ env_vals' = Append(env_vals, e.value)
          /\ x_vals' = Append(x_vals, x_in)
          /\ rib_rng' = e.rng
    /\ UNCHANGED <<seed, randomness, base_amp_in, base_period_in, use_end_fade,
                   warp_strength_in, rib_thickness_in, gap_between_ribs_in,
                   master, streams, global_warp_components, rib_params, ribs_out,
                   entropy, runs,
                   pc, tab_spans, i, lines, cur_x, p, k, occs, bodies, placed, transforms,
                   messages, inputVars, tabVars, smoothVars, flowVars, hostVars>>

\* the rest of the loop body: the closing lines, the profile test, then
\* either the message and the return or the extrusion and the placement
OrganicRibEnd ==
    /\ pc = "sample" /\ Len(fitPts) = Samples + 1
    /\ lines' = ClosingLines(fitPts, rib_length_in)
    /\ IF ProfileCount(fitPts, ClosingLines(fitPts, rib_length_in)) = 0
       THEN /\ messages' = Append(messages, <<"Profile failed on rib", i + 1>>)
            /\ runs' = Append(runs, [in |-> [seed |-> seed, use_end_fade |-> use_end_fade],
                                     out |-> ribs_out])
            /\ pc' = "dialog"
            /\ UNCHANGED <<i, bodies, placed, transforms, ribs_out>>
       ELSE /\ bodies' = bodies \cup {i}
            /\ placed' = placed \cup {i}
            /\ transforms' = Append(transforms,
                   Placement(i, rib_thickness_in + gap_between_ribs_in,
                             layout_along_y))
            /\ ribs_out' = Append(ribs_out,
                   [points |-> fitPts,
                    distance |-> rib_thickness_in,
                    translation |-> cm(i * (rib_thickness_in + gap_between_ribs_in))])
            /\ i' = i + 1
            /\ pc' = "rib"
            /\ UNCHANGED <<messages, runs>>
    /\ UNCHANGED <<seed, randomness, base_amp_in, base_period_in, use_end_fade,
                   warp_strength_in, rib_thickness_in, gap_between_ribs_in,
                   master, rib_rng, streams, global_warp_components, rib_params,
                   env_vals, x_vals, entropy,
                   tab_spans, fitPts, cur_x, p, k, occs,
                   inputVars, tabVars, smoothVars, flowVars, hostVars>>

\* after the last rib: the closing message box; the run is over
OrganicReturn ==
    /\ pc = "rib" /\ i >= rib_count
    /\ messages' = Append(messages, <<"Organic ribs generated", rib_count>>)
    /\ runs' = Append(runs, [in |-> [seed |-> seed, use_end_fade |-> use_end_fade],
                             out |-> ribs_out])
    /\ pc' = "dialog"
    /\ UNCHANGED <<seed, randomness, base_amp_in, base_period_in, use_end_fade,
                   warp_strength_in, rib_thickness_in, gap_between_ribs_in,
                   master, rib_rng, streams, global_warp_components, rib_params,
                   env_vals, x_vals, ribs_out, entropy,
                   tab_spans, i, fitPts, lines, cur_x, p, k, occs, bodies, placed, transforms,
                   inputVars, tabVars, smoothVars, flowVars, hostVars>>

NextOrganic ==
    \/ ExecuteCommand
    \/ OrganicEnter
    \/ OrganicRibParams
    \/ OrganicParamsDone
    \/ OrganicRibBegin
    \/ OrganicSample
    \/ OrganicRibEnd
    \/ OrganicReturn

SpecOrganic == InitOrganic /\ [][NextOrganic]_vars

----------------------------------------------------------------------------
(* Claims on the sampled heights and the streams (checked under            *)
(* SpecOrganic)                                                            *)

\* C12: runs of one session with the same seed and the same parameter values
\* produced, rib by rib, the same outline points, the same extrusion
\* distance and the same placement, whatever ran between them.
C12_SameSeedSameRibs ==
    \A a, b \in DOMAIN runs :
        runs[a].in = runs[b].in => runs[a].out = runs[b].out

\* C12 witness: a session whose second run repeats the inputs of the first,
\* with randomness on and ribs that are not flat.
C12_Witness ==
    /\ Len(runs) = 2 /\ runs[1].in = runs[2].in
    /\ randomness = 1 /\ Len(runs[2].out) = rib_count
    /\ \E r \in DOMAIN runs[2].out :
          \E s \in DOMAIN runs[2].out[r].points :
              runs[2].out[r].points[s][2] # cm(rib_height_in)

\* the wave term of the s-th sample of the rib being built, as it was
\* computed before the clamp
SampledWave(s) ==
    LET rp == rib_params[i + 1]
        w == warp_total(x_vals[s], global_warp_components, rp.local, rib_length_in)
    IN WaveTerm(env_vals[s], rp, x_vals[s], w, i, rib_count, randomness,
                rib_length_in)

\* C14: every sampled height of every rib of generate_organic_ribs, of the
\* rib being built and of the ribs already built, lies in [0, rib_height_in].
C14_HeightsWithinRib ==
    /\ \A s \in DOMAIN fitPts :
          0 <= fitPts[s][2] /\ fitPts[s][2] <= cm(rib_height_in)
    /\ \A r \in DOMAIN ribs_out :
          \A s \in DOMAIN ribs_out[r].points :
              /\ 0 <= ribs_out[r].points[s][2]
              /\ ribs_out[r].points[s][2] <= cm(rib_height_in)

\* C14 witness: a rib with one sample whose wave term would carry it below
\* the baseline and one whose wave term would carry it above the rib
\* height; the first is at 0, the second at rib_height_in.
C14_Witness ==
    /\ pc = "sample" /\ Len(fitPts) = Samples + 1
    /\ \E s \in DOMAIN fitPts :
          rib_height_in - SampledWave(s) < 0 /\ fitPts[s][2] = 0
    /\ \E s \in DOMAIN fitPts :
          rib_height_in - SampledWave(s) > rib_height_in
              /\ fitPts[s][2] = cm(rib_height_in)

----------------------------------------------------------------------------
(* geometry.generate_flow_ribs: wave fields and the lateral offset         *)
(*                                                                         *)
(* Field positions are on the grid of samples (u) and ribs (v), the flow   *)
(* angle being 0; every wave has a wavelength of four grid steps and       *)
(* amplitude 1, its direction and phase are drawn in quarter turns.  Field *)
(* values are in twelfths, mixes in thousandths, amplitudes in hundredths  *)
(* of an inch.  The mass bulge exp(-(du*du + dv*dv)) is 1 at its centre    *)
(* and 0 at the other grid points.                                         *)

\* math.cos on quarter turns
Cos4(q) == Sin4(q + 1)

\* _wave_component: four draws (theta, lam, amp, ph)
WaveComponent(rng) ==
    LET theta == UniformPhase(rng)
        rng3 == Advance(Advance(Advance(rng)))
    IN [wave |-> <<Cos4(theta), Sin4(theta), UniformPhase(rng3)>>,
        rng |-> Advance(rng3)]

\* [_wave_component(rng, scale_in) for _ in range(n)]
RECURSIVE WaveList(_, _)
WaveList(rng, n) ==
    IF n = 0 THEN <<>>
    ELSE LET c == WaveComponent(rng) IN <<c.wave>> \o WaveList(c.rng, n - 1)

\* _make_wave_field: a stream from seed_base, max(1, components) waves
make_wave_field(seed_base, components, out_amp) ==
    [seed |-> seed_base,
     waves |-> WaveList(Random(seed_base), Max(1, components)),
     out_amp |-> out_amp]

\* the sum of a * sin(TAU * t + ph) over the waves from the j-th on
RECURSIVE SumWaves(_, _, _, _)
SumWaves(waves, u, v, j) ==
    IF j > Len(waves) THEN 0
    ELSE Sin4(u * waves[j][1] + v * waves[j][2] + waves[j][3])
         + SumWaves(waves, u, v, j + 1)

\* field(u, v) of _make_wave_field: out_amp * (s / amp_sum), in twelfths
WaveField(f, u, v) ==
    f.out_amp * ((12 \div Len(f.waves)) * SumWaves(f.waves, u, v, 1))

\* _make_warped_field: the base field and the two warp fields; the warp
\* displacement warp_strength * base_scale_in is in grid steps
make_warped_field(seed_base, out_amp, base_components, warp_components, warp_strength) ==
    [base |-> make_wave_field(seed_base, base_components, 1),
     wx |-> make_wave_field(seed_base + 101, warp_components, 1),
     wy |-> make_wave_field(seed_base + 202, warp_components, 1),
     warp_strength |-> warp_strength,
     out_amp |-> out_amp]

\* mutant of WarpedField: the displacement does not scale with
\* warp_strength
WarpedFieldUnscaled(f, u, v) ==
    LET du == WaveField(f.wx, u, v) \div 12
        dv == WaveField(f.wy, u, v) \div 12
    IN f.out_amp * WaveField(f.base, u + du, v + dv)

\* field(u, v) of _make_warped_field
WarpedField(f, u, v) ==
    LET du == (WaveField(f.wx, u, v) * f.warp_strength) \div 12
        dv == (WaveField(f.wy, u, v) * f.warp_strength) \div 12
    IN f.out_amp * WaveField(f.base, u + du, v + dv)

\* mutant of end_envelope: no fade at the ends
EndEnvelopeOpen(x, L) == 1

\* end_envelope(x_in): 1.0 for a rib length <= 0, else sin(pi t)^p at t
\* clamped to [0, 1] (t in thousandths)
end_envelope(x, L) ==
    IF L <= 0 THEN 1
    ELSE LET t == Max(0, Min(1000, (1000 * x) \div L))
         IN IF t = 0 \/ t = 1000 THEN 0 ELSE 1

\* small_mix = (0.12 + 0.40 detail) (0.25 + 0.75 (1 - smoothness)), clamped
\* to [0, 0.80]
SmallMix(a) ==
    Max(0, Min(800, ((12 + 40 * a.detail) * (25 + 75 * (1 - a.smoothness))) \div 10))

\* big_mix = 1.0 - 0.55 * small_mix
BigMix(a) == 1000 - ((55 * SmallMix(a)) \div 100)

\* pitch_in = rib_thickness_in + gap_between_ribs_in
Pitch(a) == a.rib_thickness_in + a.gap_between_ribs_in

\* max_lateral = max(0.0, 1.05 * pitch_in)
MaxLateral(a) == Max(0, 105 * Pitch(a))

\* mutant of LateralAmp: the amplitude is not held to max_lateral
LateralAmpUnclamped(a) ==
    (Max(0, a.base_amplitude_in) * (35 + 85 * a.flow_strength)
        * (25 + 75 * a.randomness)) \div 100

\* lateral_amp_in = min(base_lateral_amp_in, max_lateral)
LateralAmp(a) ==
    Min((Max(0, a.base_amplitude_in) * (35 + 85 * a.flow_strength)
            * (25 + 75 * a.randomness)) \div 100,
        MaxLateral(a))

\* the mass bulge: two draws from the master stream for its centre when
\* use_mass and rib_count > 1 and mass_strength > 0, else all zero
MassBulge(a, rng) ==
    IF a.use_mass /\ a.rib_count > 1 /\ a.mass_strength > 0
    THEN [u0 |-> RawDraw(rng) % (a.samples + 1),
          v0 |-> RawDraw(Advance(rng)) % a.rib_count,
          amp |-> ((35 + 65 * a.mass_strength) * (25 + 75 * a.randomness)) \div 10,
          rng |-> Advance(Advance(rng)),
          drawn |-> 2]
    ELSE [u0 |-> 0, v0 |-> 0, amp |-> 0, rng |-> rng, drawn |-> 0]

\* the signal s of lateral_offset_in at sample u of rib v, in twelve
\* thousandths: the two fields mixed, the directional component (the
\* term 0.35 * yphase, below a hundredth of a turn at wildness 0, left
\* out), the mass bulge
FlowSignal(a, flds, ms, u, v, x) ==
    BigMix(a) * WarpedField(flds.big, u, v)
    + SmallMix(a) * WarpedField(flds.small, u, v)
    + 12 * (25 + 75 * a.randomness)
         * Sin4(((4 * x) \div Max(a.bend_scale_in, (5 * a.rib_length_in) \div 4))
                + ((4 * (a.seed % 100000)) \div 100000))
    + (IF a.use_mass /\ ms.amp # 0 /\ u = ms.u0 /\ v = ms.v0 THEN 12 * ms.amp ELSE 0)

\* lateral_offset_in: env * lateral_amp_in * s
lateral_offset_in(a, flds, ms, u, v, x) ==
    end_envelope(x, a.rib_length_in) * LateralAmp(a) * FlowSignal(a, flds, ms, u, v, x)

\* one inch in the unit of lateral_offset_in
OffsetUnit == 100 * 1000 * 12

\* x_in = rib_length_in * (s / max(1, samples))
FlowSamplePosition(L, s, n) == (L * s) \div Max(1, n)

\* smooth_series(values, passes) as a whole
RECURSIVE SmoothLoop(_, _)
SmoothLoop(out, n) ==
    IF n = 0 THEN out
    ELSE LET r == SmoothIteration(out)
         IN IF r.kind = "continue" THEN SmoothLoop(r.out, n - 1) ELSE r.out
smooth_series(values, passes) ==
    IF SmoothEarlyReturn(passes) THEN values ELSE SmoothLoop(values, passes)

\* config.LIMITS, in hundredths
LIMITS ==
    [rib_count |-> <<100, 60000>>, rib_length_in |-> <<100, 14400>>,
     rib_height_in |-> <<25, 1200>>, rib_thickness_in |-> <<25, 200>>,
     gap_between_ribs_in |-> <<0, 600>>,
     randomness |-> <<0, 100>>, wildness |-> <<0, 100>>, smoothness |-> <<0, 100>>,
     base_amplitude_in |-> <<0, 1200>>, bend_scale_in |-> <<600, 24000>>,
     flow_strength |-> <<0, 100>>, detail |-> <<0, 100>>,
     mass_strength |-> <<0, 100>>,
     samples |-> <<8000, 120000>>, smooth_passes |-> <<0, 1000>>,
     tab_width_in |-> <<50, 1200>>, tab_height_in |-> <<10, 300>>]

\* sketch.profiles.count, the host's answer for the footprint: the ribbon
\* between the two edge splines encloses area exactly when the rib has a
\* length and a thickness
FootprintProfileCount(a) ==
    IF a.rib_length_in * a.rib_thickness_in = 0 THEN 0 ELSE 1

----------------------------------------------------------------------------
(* SpecWarp: a warped field and its evaluations                            *)

\* the field is evaluated on the grid 0 .. MaxGrid in u and in v
MaxGrid == 3
\* seeds of the warped fields of SpecWarp
WarpSeeds == {1, 2, 3, 6}

InitWarp ==
    /\ \E sd \in WarpSeeds, bc \in {3, 4}, ws \in {0, 1} :
          fields = [warped |-> make_warped_field(sd, 1, bc, 2, ws)]
    /\ field_vals = <<>>
    /\ pc = "warp"
    /\ dialog = <<>> /\ args = <<>> /\ mass = <<>> /\ draws = 0
    /\ y_center_vals = <<>> /\ y_smooth = <<>> /\ progress = "none"
    /\ tab_spans = <<>> /\ i = 0 /\ fitPts = <<>> /\ lines = <<>>
    /\ cur_x = 0 /\ p = <<0, 0>> /\ k = 0
    /\ occs = {} /\ bodies = {} /\ placed = {} /\ messages = <<>>
    /\ transforms = <<>>
    /\ tab_centers_in = <<>> /\ tab_width_in = 2 /\ tab_height_in = 1
    /\ rib_length_in = 48 /\ rib_height_in = 1 /\ rib_count = 1 /\ add_tabs = FALSE
    /\ IdleTabs /\ IdleSmooth /\ IdleOrganic /\ IdleHost
    /\ layout_along_y = TRUE

\* one call field(u, v) of the warped field
EvaluateField ==
    /\ pc = "warp"
    /\ \E u \in 0 .. MaxGrid, v \in 0 .. MaxGrid :
          field_vals' = <<[u |-> u, v |-> v,
                           value |-> WarpedField(fields.warped, u, v)]>>
    /\ UNCHANGED <<dialog, args, fields, mass, draws, y_center_vals, y_smooth,
                   progress, ribVars, organicVars, inputVars, tabVars, smoothVars,
                   hostVars>>

NextWarp == EvaluateField

SpecWarp == InitWarp /\ [][NextWarp]_vars

\* C18: every value returned by a warped field built with warp_strength 0 is
\* the value of its base field at the same (u, v).
C18_ZeroStrengthIsBaseField ==
    fields.warped.warp_strength = 0 =>
        \A e \in DOMAIN field_vals :
            field_vals[e].value =
                WaveField(fields.warped.base, field_vals[e].u, field_vals[e].v)

\* C18 witness: a field of warp_strength 0 evaluated where both warp fields
\* are away from 0 and where the base field, displaced by them, has another
\* value.
C18_Witness ==
    /\ fields.warped.warp_strength = 0
    /\ \E e \in DOMAIN field_vals :
          LET u == field_vals[e].u
              v == field_vals[e].v
              du == WaveField(fields.warped.wx, u, v) \div 12
              dv == WaveField(fields.warped.wy, u, v) \div 12
          IN /\ WaveField(fields.warped.wx, u, v) # 0
             /\ WaveField(fields.warped.wy, u, v) # 0
             /\ WaveField(fields.warped.base, u + du, v + dv)
                    # WaveField(fields.warped.base, u, v)
             /\ field_vals[e].value = WaveField(fields.warped.base, u, v)

----------------------------------------------------------------------------
(* SpecFlow: generator.execute and one run of geometry.generate_flow_ribs  *)

\* values typed into the unitless inputs: the ends of the documented range
\* and one value beyond it
DialogUnits == {0, 1, 2}
\* base amplitudes typed into the dialog (inches)
DialogAmplitudes == {-4, 4, 12}
\* seeds typed into the dialog of the flow generator
FlowSeeds == {1, 6}

\* the variables no action of SpecFlow changes
flowRest == <<dialog, field_vals, layout_along_y, last_call, pockets,
              tab_spans, fitPts, lines, cur_x, p, k,
              seed, randomness, base_amp_in, base_period_in, use_end_fade,
              warp_strength_in, rib_thickness_in, gap_between_ribs_in,
              rib_rng, global_warp_components, rib_params, env_vals, ribs_out,
              entropy, runs, inputVars, tabVars, smoothVars>>

\* name_prefix = "OrganicFlowRibs_"
name_prefix == "OrganicFlowRibs_"

\* a component name, as the text before and the text after its 16th
\* character
ContainerName(prefix, count, sd) == <<prefix, <<count, "x_seed", sd>>>>

\* comp.name.startswith(prefix)
StartsWith(name, prefix) == name[1] = prefix

\* the root occurrences a design holds before a run: a component of the
\* user and the container of an earlier run (made_by 0: before the session)
EarlierOccurrences ==
    <<[name |-> <<"Bracket", <<>>>>, made_by |-> 0],
      [name |-> ContainerName(name_prefix, 1, 1), made_by |-> 0]>>

\* mutant of delete_containers_with_prefix: nothing is deleted
DeleteNothing(occurrences, prefix) == occurrences

\* delete_containers_with_prefix: the occurrences left in the root
delete_containers_with_prefix(occurrences, prefix) ==
    SelectSeq(occurrences, LAMBDA o : ~StartsWith(o.name, prefix))

\* one inch in the unit of the footprint ordinates
YUnit == SmoothScale * OffsetUnit

\* notch_width_in = min(max(0, tab_width_in), max(0, 0.92 rib_thickness_in))
notch_width_in(a) ==
    Min(Max(0, a.tab_width_in * YUnit),
        Max(0, 92 * (a.rib_thickness_in * (YUnit \div 100))))

\* notch_depth_in = max(0.0, tab_height_in)
notch_depth_in(a) == Max(0, a.tab_height_in)

\* mutant of use_notch: no notch is cut when no tab centre is given
UseNotchAtCentres(a) ==
    /\ a.add_tabs /\ notch_width_in(a) > YUnit \div 10000 /\ notch_depth_in(a) > 0
    /\ a.tab_centers_in # <<>>

\* use_notch = add_tabs and notch_width_in > 1e-4 and notch_depth_in > 1e-4
use_notch(a) ==
    a.add_tabs /\ notch_width_in(a) > YUnit \div 10000 /\ notch_depth_in(a) > 0

\* mutant of NotchFloor: the notch floor is not held at x >= 0
NotchFloorUnclamped(a, x1) == x1 - notch_depth_in(a)

\* x_notch_in = max(0.0, x1 - notch_depth_in)
NotchFloor(a, x1) == Max(0, x1 - notch_depth_in(a))

\* mutant of BackEdge: the notch is cut whether use_notch or not
BackEdgeAlwaysNotched(a, x1, yc1) ==
    LET half_th == (a.rib_thickness_in * YUnit) \div 2
        y_top_1 == yc1 + half_th
        y_bot_1 == yc1 - half_th
        y_n_top == Min(notch_width_in(a) \div 2, Max(y_bot_1, y_top_1))
        y_n_bot == Max(-(notch_width_in(a) \div 2), Min(y_bot_1, y_top_1))
        x_notch_in == NotchFloor(a, x1)
    IN <<<<x1, y_top_1>>, <<x1, y_n_top>>, <<x_notch_in, y_n_top>>,
         <<x_notch_in, y_n_bot>>, <<x1, y_n_bot>>, <<x1, y_bot_1>>>>

\* the back edge at x1 with the centre offset yc1: the corners the lines
\* join, from the top to the bottom
BackEdge(a, x1, yc1) ==
    LET half_th == (a.rib_thickness_in * YUnit) \div 2
        y_top_1 == yc1 + half_th
        y_bot_1 == yc1 - half_th
        y_n_top == Min(notch_width_in(a) \div 2, Max(y_bot_1, y_top_1))
        y_n_bot == Max(-(notch_width_in(a) \div 2), Min(y_bot_1, y_top_1))
        x_notch_in == NotchFloor(a, x1)
    IN IF use_notch(a)
       THEN <<<<x1, y_top_1>>, <<x1, y_n_top>>, <<x_notch_in, y_n_top>>,
              <<x_notch_in, y_n_bot>>, <<x1, y_n_bot>>, <<x1, y_bot_1>>>>
       ELSE <<<<x1, y_top_1>>, <<x1, y_bot_1>>>>

\* the sketch of one rib: the fit points of the top and of the bottom
\* spline, the corners of the back edge, the fit points of the front spline
\* (x in inches, the bow depth of the front in hundredths)
Footprint(a, xs, ys) ==
    LET half_th == (a.rib_thickness_in * YUnit) \div 2
        n == Len(xs)
    IN [top |-> [s \in 1 .. n |-> <<xs[s], ys[s] + half_th>>],
        bot |-> [s \in 1 .. n |-> <<xs[n + 1 - s], ys[n + 1 - s] - half_th>>],
        back |-> BackEdge(a, xs[n], ys[n]),
        front |-> <<<<xs[1], ys[1] - half_th>>,
                    <<Min(3 * a.rib_length_in, 15), ys[1]>>,
                    <<xs[1], ys[1] + half_th>>>>]

\* the texts of the tabCenters input, as the parts between the commas
TabCenterTexts == {<<>>, <<"16", "32">>, <<"16", "", "32">>, <<"16", "abc">>}

\* the parts float() converts
FloatOf(part) == CASE part = "16" -> 16 [] part = "32" -> 32 [] OTHER -> -1
IsFloatText(part) == part \in {"16", "32"}

\* _parse_csv_floats: the empty parts are skipped, float() raises on a part
\* that is not a number
RECURSIVE parse_csv_floats(_)
parse_csv_floats(parts) ==
    IF parts = <<>> THEN [raised |-> FALSE, out |-> <<>>]
    ELSE LET rest == parse_csv_floats(Tail(parts))
         IN IF Head(parts) = "" THEN rest
            ELSE IF ~IsFloatText(Head(parts)) THEN [raised |-> TRUE, out |-> <<>>]
            ELSE [raised |-> rest.raised,
                  out |-> IF rest.raised THEN <<>>
                          ELSE <<FloatOf(Head(parts))>> \o rest.out]

\* the state before the command runs, for the dialog values d
FlowStart(d) ==
    /\ dialog = d
    /\ args = <<>> /\ fields = <<>> /\ mass = <<>> /\ draws = 0
    /\ y_center_vals = <<>> /\ y_smooth = <<>> /\ progress = "none"
    /\ field_vals = <<>>
    /\ pc = "flow_dialog" /\ tab_spans = <<>> /\ i = 0 /\ fitPts = <<>> /\ lines = <<>>
    /\ cur_x = 0 /\ p = <<0, 0>> /\ k = 0
    /\ occs = {} /\ bodies = {} /\ placed = {} /\ messages = <<>>
    /\ transforms = <<>>
    /\ tab_centers_in = <<>> /\ tab_width_in = 2 /\ tab_height_in = 1
    /\ rib_length_in = 48 /\ rib_height_in = 1 /\ rib_count = 1 /\ add_tabs = FALSE
    /\ IdleTabs /\ IdleSmooth /\ IdleOrganic
    /\ layout_along_y = TRUE
    /\ container_transform = "none" /\ root_occs = EarlierOccurrences
    /\ footprints = <<>> /\ last_call = <<>> /\ pockets = <<>>

InitFlow ==
    \E sd \in FlowSeeds, n \in 1 .. MaxRibs, amp \in DialogAmplitudes,
       r \in DialogUnits, fs \in {0, 1}, d \in {0, 1},
       um \in BOOLEAN, msv \in {0, 1}, sp \in 0 .. MaxPasses, ly \in BOOLEAN :
       FlowStart([seed |-> sd, ribCount |-> n,
                  ribLength |-> cm(48), ribHeight |-> cm(4),
                  ribThickness |-> cm(1), gapBetweenRibs |-> cm(0),
                  layoutAlongY |-> ly,
                  randomness |-> r, wildness |-> 0, smoothness |-> 0,
                  baseAmplitude |-> cm(amp), bendScale |-> cm(72),
                  flowStrength |-> fs, detail |-> d,
                  useMass |-> um, massStrength |-> msv,
                  samples |-> Samples, smoothPasses |-> sp,
                  addTabs |-> FALSE, tabWidth |-> cm(4), tabHeight |-> cm(1),
                  tabCenters |-> <<>>, deleteOld |-> TRUE])

\* generator.execute: every input is read and handed to generate_flow_ribs
\* as read (lengths converted from the host's centimetres to inches, the
\* text of the tab centres parsed); the containers of earlier runs are
\* deleted first.  When the text does not parse, the handler shows the
\* traceback and nothing else is done
FlowExecute ==
    /\ pc = "flow_dialog"
    /\ IF parse_csv_floats(dialog.tabCenters).raised
       THEN /\ messages' = Append(messages, <<"Generator failed", 0>>)
            /\ pc' = "flow_done"
            /\ UNCHANGED <<args, root_occs>>
       ELSE /\ args' = [seed |-> dialog.seed, rib_count |-> dialog.ribCount,
                        rib_length_in |-> inches(dialog.ribLength),
                        rib_height_in |-> inches(dialog.ribHeight),
                        rib_thickness_in |-> inches(dialog.ribThickness),
                        gap_between_ribs_in |-> inches(dialog.gapBetweenRibs),
                        layout_along_y |-> dialog.layoutAlongY,
                        randomness |-> dialog.randomness, wildness |-> dialog.wildness,
                        smoothness |-> dialog.smoothness,
                        base_amplitude_in |-> inches(dialog.baseAmplitude),
                        bend_scale_in |-> inches(dialog.bendScale),
                        flow_strength |-> dialog.flowStrength, detail |-> dialog.detail,
                        use_mass |-> dialog.useMass, mass_strength |-> dialog.massStrength,
                        samples |-> dialog.samples, smooth_passes |-> dialog.smoothPasses,
                        add_tabs |-> dialog.addTabs,
                        tab_width_in |-> inches(dialog.tabWidth),
                        tab_height_in |-> inches(dialog.tabHeight),
                        tab_centers_in |-> parse_csv_floats(dialog.tabCenters).out]
            /\ root_occs' = delete_containers_with_prefix(root_occs, name_prefix)
            /\ pc' = "flow_enter"
            /\ UNCHANGED messages
    /\ UNCHANGED <<fields, mass, draws, y_center_vals, y_smooth, progress,
                   i, occs, bodies, placed, transforms, master,
                   streams, x_vals, container_transform, footprints, flowRest>>

\* generate_flow_ribs up to the fields: the progress dialog, the container,
\* the master stream
FlowEnter ==
    /\ pc = "flow_enter"
    /\ progress' = "shown"
    /\ root_occs' = Append(root_occs,
           [name |-> ContainerName(name_prefix, args.rib_count, args.seed),
            made_by |-> 1])
    /\ container_transform' = "identity"
    /\ master' = Random(args.seed)
    /\ streams' = <<args.seed>>
    /\ pc' = "fields"
    /\ UNCHANGED <<args, fields, mass, draws, y_center_vals, y_smooth,
                   i, occs, bodies, placed, transforms, messages, x_vals,
                   footprints, flowRest>>

\* big_field and small_field: six streams, four draws per wave
FlowBuildFields ==
    /\ pc = "fields"
    /\ fields' = [big |-> make_warped_field(args.seed, 1, 3, 2, 1),
                  small |-> make_warped_field(args.seed + 999, 1, 4, 2, 1)]
    /\ streams' = streams \o <<args.seed, args.seed + 101, args.seed + 202,
                              args.seed + 999, args.seed + 999 + 101,
                              args.seed + 999 + 202>>
    /\ draws' = draws + 4 * (3 + 2 + 2) + 4 * (4 + 2 + 2)
    /\ pc' = "mass"
    /\ UNCHANGED <<args, mass, y_center_vals, y_smooth, progress,
                   i, occs, bodies, placed, transforms, messages, master, x_vals,
                   container_transform, root_occs, footprints, flowRest>>

\* the mass bulge, the lateral amplitude and the notch parameters
FlowMassBulge ==
    /\ pc = "mass"
    /\ LET m == MassBulge(args, master)
       IN /\ mass' = [u0 |-> m.u0, v0 |-> m.v0, amp |-> m.amp]
          /\ master' = m.rng
          /\ draws' = draws + m.drawn
    /\ i' = 0
    /\ pc' = "flow_rib"
    /\ UNCHANGED <<args, fields, y_center_vals, y_smooth, progress,
                   occs, bodies, placed, transforms, messages, streams, x_vals,
                   container_transform, root_occs, footprints, flowRest>>

\* mutant of FlowRibBegin: the fields are built again, from fresh draws,
\* for every rib
FlowRibBeginRebuilds ==
    /\ pc = "flow_rib" /\ i < args.rib_count
    /\ occs' = occs \cup {i}
    /\ x_vals' = <<>> /\ y_center_vals' = <<>> /\ y_smooth' = <<>>
    /\ fields' = [big |-> make_warped_field(args.seed + i + 1, 1, 3, 2, 1),
                  small |-> make_warped_field(args.seed + i + 1000, 1, 4, 2, 1)]
    /\ draws' = draws + 4 * (3 + 2 + 2) + 4 * (4 + 2 + 2)
    /\ pc' = "flow_sample"
    /\ UNCHANGED <<args, mass, progress,
                   i, bodies, placed, transforms, messages, master, streams,
                   container_transform, root_occs, footprints, flowRest>>

\* rib i: the progress value, the occurrence, the sketch, the empty lists
FlowRibBegin ==
    /\ pc = "flow_rib" /\ i < args.rib_count
    /\ occs' = occs \cup {i}
    /\ x_vals' = <<>> /\ y_center_vals' = <<>> /\ y_smooth' = <<>>
    /\ pc' = "flow_sample"
    /\ UNCHANGED <<args, fields, mass, draws, progress,
                   i, bodies, placed, transforms, messages, master, streams,
                   container_transform, root_occs, footprints, flowRest>>

\* one iteration of "for s in range(samples + 1)"; offsets are held in
\* units of 1 / SmoothScale
FlowSample ==
    /\ pc = "flow_sample" /\ Len(x_vals) < args.samples + 1
    /\ LET s == Len(x_vals)
           x_in == FlowSamplePosition(args.rib_length_in, s, args.samples)
       IN /\ x_vals' = Append(x_vals, x_in)
          /\ y_center_vals' = Append(y_center_vals,
                 SmoothScale * lateral_offset_in(args, fields, mass, s, i, x_in))
    /\ UNCHANGED <<args, fields, mass, draws, y_smooth, progress,
                   pc, i, occs, bodies, placed, transforms, messages, master,
                   streams, container_transform, root_occs, footprints, flowRest>>

\* y_center_vals = smooth_series(y_center_vals, passes=smooth_passes)
FlowSmooth ==
    /\ pc = "flow_sample" /\ Len(x_vals) = args.samples + 1
    /\ y_smooth' = smooth_series(y_center_vals, args.smooth_passes)
    /\ pc' = "outline"
    /\ UNCHANGED <<args, fields, mass, draws, y_center_vals, progress,
                   i, occs, bodies, placed, transforms, messages, master,
                   streams, x_vals, container_transform, root_occs, footprints,
                   flowRest>>

\* mutant of FlowRibRaises: the exception leaves the progress dialog as it
\* is
FlowRibRaisesNoFinally ==
    /\ pc \in {"flow_sample", "outline"}
    /\ messages' = Append(messages, <<"Generator failed", i + 1>>)
    /\ pc' = "flow_done"
    /\ UNCHANGED <<args, fields, mass, draws, y_center_vals, y_smooth, progress,
                   i, occs, bodies, placed, transforms, master, streams, x_vals,
                   container_transform, root_occs, footprints, flowRest>>

\* a call of the host raises while rib i is built: the finally clause hides
\* the progress dialog, execute's handler shows the traceback
FlowRibRaises ==
    /\ pc \in {"flow_sample", "outline"}
    /\ progress' = "hidden"
    /\ messages' = Append(messages, <<"Generator failed", i + 1>>)
    /\ pc' = "flow_done"
    /\ UNCHANGED <<args, fields, mass, draws, y_center_vals, y_smooth,
                   i, occs, bodies, placed, transforms, master, streams, x_vals,
                   container_transform, root_occs, footprints, flowRest>>

\* the rest of the loop body: the footprint, the profile test, then either
\* the message and the return (the progress dialog is hidden on the way
\* out) or the extrusion and the placement
FlowRibEnd ==
    /\ pc = "outline"
    /\ footprints' = Append(footprints, Footprint(args, x_vals, y_smooth))
    /\ IF FootprintProfileCount(args) = 0
       THEN /\ messages' = Append(messages, <<"Profile failed on rib", i + 1>>)
            /\ progress' = "hidden"
            /\ pc' = "flow_done"
            /\ UNCHANGED <<i, bodies, placed, transforms>>
       ELSE /\ bodies' = bodies \cup {i}
            /\ placed' = placed \cup {i}
            /\ transforms' = Append(transforms,
                   Placement(i, Pitch(args), args.layout_along_y))
            /\ i' = i + 1
            /\ pc' = "flow_rib"
            /\ UNCHANGED <<messages, progress>>
    /\ UNCHANGED <<args, fields, mass, draws, y_center_vals, y_smooth,
                   occs, master, streams, x_vals, container_transform, root_occs,
                   flowRest>>

\* after the last rib: the progress dialog is hidden, the container is
\* rotated, the closing message box
FlowReturn ==
    /\ pc = "flow_rib" /\ i >= args.rib_count
    /\ progress' = "hidden"
    /\ container_transform' = "rotated -90 about X"
    /\ messages' = Append(messages, <<"Flow ribs generated", args.rib_count>>)
    /\ pc' = "flow_done"
    /\ UNCHANGED <<args, fields, mass, draws, y_center_vals, y_smooth,
                   i, occs, bodies, placed, transforms, master, streams, x_vals,
                   root_occs, footprints, flowRest>>

NextFlow ==
    \/ FlowExecute
    \/ FlowEnter
    \/ FlowBuildFields
    \/ FlowMassBulge
    \/ FlowRibBegin
    \/ FlowSample
    \/ FlowSmooth
    \/ FlowRibRaises
    \/ FlowRibEnd
    \/ FlowReturn

SpecFlow == InitFlow /\ [][NextFlow]_vars

----------------------------------------------------------------------------
(* Claims on generate_flow_ribs (checked under SpecFlow)                   *)

\* TRUE when the value v (inches or unitless) lies within the two
\* hundredths lo, hi of an entry of LIMITS
WithinLimits(v, lim) == lim[1] <= 100 * v /\ 100 * v <= lim[2]

\* C13: once generate_flow_ribs has been called, every bounded argument it
\* received lies within its [min, max] of config.LIMITS, whatever the dialog
\* held.  (samples, which the host's spinner holds to its range, is left to
\* the spinner.)
C13_ArgumentsWithinLimits ==
    pc \in {"flow_enter", "fields", "mass", "flow_rib", "flow_sample",
            "outline", "flow_done"} =>
        \A name \in {"rib_count", "rib_length_in", "rib_height_in",
                     "rib_thickness_in", "gap_between_ribs_in",
                     "randomness", "wildness", "smoothness",
                     "base_amplitude_in", "bend_scale_in", "flow_strength",
                     "detail", "mass_strength", "smooth_passes",
                     "tab_width_in", "tab_height_in"} :
            WithinLimits(args[name], LIMITS[name])

\* max_lateral in the unit of the stored offsets
MaxLateralStored(a) == SmoothScale * (OffsetUnit \div 100) * MaxLateral(a)

\* C15: the centreline offset of every rib at every sample position, before
\* and after smoothing, has magnitude at most max_lateral.
C15_OffsetWithinMaxLateral ==
    pc \in {"flow_rib", "flow_sample", "outline", "flow_done"} =>
        /\ \A s \in DOMAIN y_center_vals :
              Abs(y_center_vals[s]) <= MaxLateralStored(args)
        /\ \A s \in DOMAIN y_smooth :
              Abs(y_smooth[s]) <= MaxLateralStored(args)

\* the positions of generate_flow_ribs inside the loop over the ribs
FlowRibStates == {"flow_rib", "flow_sample", "outline"}

\* C19: when the loop over the ribs is entered the wave fields and the mass
\* bulge exist, and no step taken inside the loop changes them, draws a
\* random number or creates a stream.
C19_FieldsBuiltOnceBeforeRibs ==
    /\ [](pc \in FlowRibStates => (fields # <<>> /\ mass # <<>>))
    /\ [][(pc \in FlowRibStates) =>
             (fields' = fields /\ mass' = mass /\ draws' = draws
                 /\ master' = master /\ streams' = streams)]_vars

\* C19 witness: the second rib of a run is being sampled, with fields and a
\* mass bulge whose centre was drawn before the first rib.
C19_Witness ==
    /\ pc = "flow_sample" /\ i = 1 /\ Len(y_center_vals) >= 2
    /\ 0 \in bodies
    /\ fields # <<>> /\ mass # <<>> /\ mass.amp # 0
    /\ draws = 4 * (3 + 2 + 2) + 4 * (4 + 2 + 2) + 2

\* C29: every step that leaves the loop over the ribs, the return after the
\* last rib, the early return after a profile failure and an exception
\* raised while a rib is built, leaves the progress dialog hidden.
C29_ProgressHiddenOnEveryWayOut ==
    /\ [](pc = "flow_done" => progress = "hidden")
    /\ [][((pc \in FlowRibStates) /\ pc' \notin FlowRibStates) =>
             (progress = "shown" /\ progress' = "hidden")]_vars

\* C29 witness: an exception was raised while the second rib was built, the
\* first being extruded and placed; the progress dialog is hidden.
C29_Witness ==
    /\ pc = "flow_done" /\ progress = "hidden"
    /\ messages[Len(messages)] = <<"Generator failed", 2>>
    /\ bodies = {0} /\ container_transform = "identity"

----------------------------------------------------------------------------
(* SpecGen: a run of either generator                                      *)

InitGen == InitOrganic \/ InitFlow

NextGen == NextOrganic \/ NextFlow

SpecGen == InitGen /\ [][NextGen]_vars

C20_StreamSeedsDistinct ==
    \A a, b \in DOMAIN streams : a # b => streams[a] # streams[b]

----------------------------------------------------------------------------
(* The two samplers in floating point                                      *)
(*                                                                         *)
(* A float has MantissaBits significant bits; every product and quotient   *)
(* is rounded to the nearest float, ties to the even mantissa.  Values are *)
(* integers in the unit 1 / FloatUnit.                                     *)

\* the significant bits of a float
MantissaBits == 5
\* the largest number of samples of a rib in SpecSampler
MaxSampleCount == 5

FloatUnit == 2 ^ (2 * MantissaBits)

\* the rib lengths: every mantissa of a normalised float, in inches
FloatLengths == (2 ^ (MantissaBits - 1)) .. (2 ^ MantissaBits - 1)

\* the exponent of num / den >= 1: the largest e with 2^e <= num / den
RECURSIVE FloatExponent(_, _)
FloatExponent(num, den) ==
    IF 2 * den > num THEN 0 ELSE 1 + FloatExponent(num, 2 * den)

\* num / den rounded to a float
FloatRound(num, den) ==
    IF num = 0 THEN 0
    ELSE LET e == FloatExponent(num, den)
             q == IF e >= MantissaBits - 1 THEN 2 ^ (e - MantissaBits + 1) ELSE 1
             m == num \div (den * q)
             rem == num - m * den * q
             up == 2 * rem > den * q \/ (2 * rem = den * q /\ m % 2 = 1)
         IN (IF up THEN m + 1 ELSE m) * q

\* wavy.py: x_in = rib_length_in * s / samples, the product first
OrganicPositionFloat(L, s, n) == FloatRound(FloatRound(L * s, 1), n)

\* geometry.py: x_in = rib_length_in * (s / max(1, samples)), the quotient
\* first
FlowPositionFloat(L, s, n) ==
    FloatRound(L * FloatRound(s * FloatUnit, Max(1, n)), FloatUnit)

InitSampler ==
    /\ \E L \in FloatLengths, n \in 1 .. MaxSampleCount :
          args = [rib_length_in |-> L * FloatUnit, samples |-> n]
    /\ pc \in {"organic_sampler", "flow_sampler"}
    /\ dialog = <<>> /\ fields = <<>> /\ mass = <<>> /\ draws = 0
    /\ y_center_vals = <<>> /\ y_smooth = <<>> /\ progress = "none"
    /\ field_vals = <<>>
    /\ tab_spans = <<>> /\ i = 0 /\ fitPts = <<>> /\ lines = <<>>
    /\ cur_x = 0 /\ p = <<0, 0>> /\ k = 0
    /\ occs = {} /\ bodies = {} /\ placed = {} /\ messages = <<>>
    /\ transforms = <<>>
    /\ tab_centers_in = <<>> /\ tab_width_in = 2 /\ tab_height_in = 1
    /\ rib_length_in = 48 /\ rib_height_in = 1 /\ rib_count = 1 /\ add_tabs = FALSE
    /\ IdleTabs /\ IdleSmooth /\ IdleOrganic /\ IdleHost
    /\ layout_along_y = TRUE

\* one iteration of "for s in range(samples + 1)" of generate_organic_ribs
OrganicSamplerStep ==
    /\ pc = "organic_sampler" /\ Len(x_vals) < args.samples + 1
    /\ x_vals' = Append(x_vals,
           OrganicPositionFloat(args.rib_length_in, Len(x_vals), args.samples))
    /\ UNCHANGED <<args, fields, mass, draws, y_center_vals, y_smooth, progress,
                   pc, i, occs, bodies, placed, transforms, messages, master,
                   streams, container_transform, root_occs, footprints, flowRest>>

\* one iteration of "for s in range(samples + 1)" of generate_flow_ribs
FlowSamplerStep ==
    /\ pc = "flow_sampler" /\ Len(x_vals) < args.samples + 1
    /\ x_vals' = Append(x_vals,
           FlowPositionFloat(args.rib_length_in, Len(x_vals), args.samples))
    /\ UNCHANGED <<args, fields, mass, draws, y_center_vals, y_smooth, progress,
                   pc, i, occs, bodies, placed, transforms, messages, master,
                   streams, container_transform, root_occs, footprints, flowRest>>

NextSampler ==
    \/ OrganicSamplerStep
    \/ FlowSamplerStep

SpecSampler == InitSampler /\ [][NextSampler]_vars

\* C17: once a rib is sampled there are samples + 1 positions, the first is
\* 0, the last is rib_length, and every position is above the one before.
C17_PositionsFromZeroToLength ==
    /\ Len(x_vals) <= args.samples + 1
    /\ \A s \in 2 .. Len(x_vals) : x_vals[s - 1] < x_vals[s]
    /\ Len(x_vals) >= 1 => x_vals[1] = 0
    /\ Len(x_vals) = args.samples + 1 => x_vals[Len(x_vals)] = args.rib_length_in

\* the part of C17 that holds in floating point: the count, the first
\* position and the order
SamplerCountAndOrder ==
    /\ Len(x_vals) <= args.samples + 1
    /\ \A s \in 2 .. Len(x_vals) : x_vals[s - 1] < x_vals[s]
    /\ Len(x_vals) >= 1 => x_vals[1] = 0

\* the last position of the flow sampler is rib_length
FlowSamplerEndsAtLength ==
    (pc = "flow_sampler" /\ Len(x_vals) = args.samples + 1) =>
        x_vals[Len(x_vals)] = args.rib_length_in

----------------------------------------------------------------------------
(* Claims on the placement of the ribs (checked under SpecGen)             *)

\* the pitch and the stacking axis of the run in progress
RunPitch == IF args = <<>> THEN rib_thickness_in + gap_between_ribs_in
            ELSE Pitch(args)
RunAlongY == IF args = <<>> THEN layout_along_y ELSE args.layout_along_y

\* a placement leaves the points of the ribs sketched before as they are
OutlinesKept ==
    /\ fitPts' = fitPts
    /\ \A r \in DOMAIN ribs_out :
          r \in DOMAIN ribs_out' /\ ribs_out'[r].points = ribs_out[r].points
    /\ \A r \in DOMAIN footprints :
          r \in DOMAIN footprints' /\ footprints'[r] = footprints[r]

\* C21: the transform given to rib i is the translation by i * pitch along Y
\* when layout_along_y and along X otherwise, without rotation; it is given
\* in the step that adds the rib's extrusion, and that step changes no
\* point of a rib outline.
C21_PlacementIsTranslation ==
    /\ [](\A r \in DOMAIN transforms :
             /\ transforms[r].rotation = "identity"
             /\ transforms[r].translation =
                    IF RunAlongY THEN <<0, cm((r - 1) * RunPitch), 0>>
                    ELSE <<cm((r - 1) * RunPitch), 0, 0>>)
    /\ [](placed \subseteq bodies /\ Len(transforms) = Cardinality(placed))
    /\ [][Len(transforms') = Len(transforms) + 1 =>
             (i \in bodies' /\ i \in placed' /\ OutlinesKept)]_vars

\* C21 witness: the second rib of a run stacked along X is placed one pitch
\* away from the first.
C21_Witness ==
    /\ ~RunAlongY /\ Len(transforms) >= 2
    /\ transforms[2].translation = <<cm(RunPitch), 0, 0>>
    /\ transforms[1].translation = <<0, 0, 0>>
    /\ bodies = {0, 1}

----------------------------------------------------------------------------
(* SpecSession: command executions, one after the other, on one design     *)
(*                                                                         *)
(* Each execution of a command is one step; what the generator does to    *)
(* the ribs is left to SpecFlow and SpecOrganic, here only its way out     *)
(* counts: "generated", "profile failed" (the early return) or "raised".   *)

\* the designs a session starts from
StartingOccurrences ==
    {<<>>, EarlierOccurrences,
     EarlierOccurrences \o
         <<[name |-> ContainerName("OrganicRibs_", 1, 1), made_by |-> 0]>>}

InitSession ==
    /\ root_occs \in StartingOccurrences
    /\ last_call = <<>> /\ messages = <<>>
    /\ pc = "session"
    /\ tab_spans = <<>> /\ i = 0 /\ fitPts = <<>> /\ lines = <<>>
    /\ cur_x = 0 /\ p = <<0, 0>> /\ k = 0
    /\ occs = {} /\ bodies = {} /\ placed = {} /\ transforms = <<>>
    /\ tab_centers_in = <<>> /\ tab_width_in = 2 /\ tab_height_in = 1
    /\ rib_length_in = 48 /\ rib_height_in = 1 /\ rib_count = 1 /\ add_tabs = FALSE
    /\ IdleTabs /\ IdleSmooth /\ IdleOrganic /\ IdleFlow
    /\ layout_along_y = TRUE
    /\ container_transform = "none" /\ footprints = <<>> /\ pockets = <<>>

\* the variables no command execution changes
sessionRest == <<pc, tab_spans, i, fitPts, lines, cur_x, p, k, occs, bodies,
                 placed, transforms, layout_along_y, container_transform,
                 footprints, pockets,
                 inputVars, tabVars, smoothVars, organicVars, flowVars>>

\* mutant of FlowCommand: the old containers are deleted before the inputs
\* are read
FlowCommandDeletesFirst ==
    /\ Len(messages) < MaxRuns
    /\ \E delete_old \in BOOLEAN, text \in TabCenterTexts, design \in BOOLEAN,
          way_out \in {"generated", "profile failed", "raised"} :
          LET call == [handler |-> "generator.execute", delete_old |-> delete_old,
                       before |-> root_occs, number |-> Len(messages) + 1]
              kept == delete_containers_with_prefix(root_occs, name_prefix)
          IN IF parse_csv_floats(text).raised \/ ~design
             THEN /\ root_occs' = kept
                  /\ messages' = Append(messages, "Generator failed")
                  /\ last_call' = call @@ [result |-> "read failed"]
             ELSE /\ root_occs' = Append(kept,
                         [name |-> ContainerName(name_prefix, 1, 1),
                          made_by |-> Len(messages) + 1])
                  /\ messages' = Append(messages, way_out)
                  /\ last_call' = call @@ [result |-> way_out]
    /\ UNCHANGED sessionRest

\* generator.execute, from the reading of the inputs to the message box
FlowCommand ==
    /\ Len(messages) < MaxRuns
    /\ \E delete_old \in BOOLEAN, text \in TabCenterTexts, design \in BOOLEAN,
          way_out \in {"generated", "profile failed", "raised"} :
          LET call == [handler |-> "generator.execute", delete_old |-> delete_old,
                       before |-> root_occs, number |-> Len(messages) + 1]
          IN IF parse_csv_floats(text).raised \/ ~design
             THEN /\ root_occs' = root_occs
                  /\ messages' = Append(messages, "Generator failed")
                  /\ last_call' = call @@ [result |-> "read failed"]
             ELSE /\ root_occs' =
                         Append(delete_containers_with_prefix(root_occs, name_prefix),
                                [name |-> ContainerName(name_prefix, 1, 1),
                                 made_by |-> Len(messages) + 1])
                  /\ messages' = Append(messages, way_out)
                  /\ last_call' = call @@ [result |-> way_out]
    /\ UNCHANGED sessionRest

\* wavy.CommandExecuteHandler.notify, from the reading of the inputs to the
\* message box
OrganicCommand ==
    /\ Len(messages) < MaxRuns
    /\ \E delete_old \in BOOLEAN, text \in TabCenterTexts, tabs \in BOOLEAN,
          length \in {0, 48}, period \in {0, 3},
          way_out \in {"generated", "profile failed", "raised"} :
          LET call == [handler |-> "wavy.notify", delete_old |-> delete_old,
                       before |-> root_occs, number |-> Len(messages) + 1]
          IN IF length <= 0
             THEN /\ root_occs' = root_occs
                  /\ messages' = Append(messages, "Rib dimensions must be > 0.")
                  /\ last_call' = call @@ [result |-> "invalid"]
             ELSE IF period <= 0
             THEN /\ root_occs' = root_occs
                  /\ messages' = Append(messages, "Base period must be > 0.")
                  /\ last_call' = call @@ [result |-> "invalid"]
             ELSE IF tabs /\ parse_csv_floats(text).raised
             THEN /\ root_occs' = root_occs
                  /\ messages' = Append(messages, "Could not parse tab centers.")
                  /\ last_call' = call @@ [result |-> "read failed"]
             ELSE /\ root_occs' =
                         Append(IF delete_old
                                THEN delete_containers_with_prefix(root_occs,
                                                                   "OrganicRibs_")
                                ELSE root_occs,
                                [name |-> ContainerName("OrganicRibs_", 1, 1),
                                 made_by |-> Len(messages) + 1])
                  /\ messages' = Append(messages, way_out)
                  /\ last_call' = call @@ [result |-> way_out]
    /\ UNCHANGED sessionRest

NextSession ==
    \/ FlowCommand
    \/ OrganicCommand

SpecSession == InitSession /\ [][NextSession]_vars

\* the occurrences of the sequence occurrences, as a set
Range(occurrences) == {occurrences[n] : n \in DOMAIN occurrences}

\* C22: after a command execution with deleteOld off, every occurrence the
\* root held before the execution is still there.
C22_DeleteOnlyWhenAsked ==
    (last_call # <<>> /\ ~last_call.delete_old) =>
        Range(last_call.before) \subseteq Range(root_occs)

\* the occurrences of the root whose component name starts with prefix
WithPrefix(occurrences, prefix) ==
    {o \in Range(occurrences) : StartsWith(o.name, prefix)}

C28_FailedReadChangesNothing ==
    (last_call # <<>> /\ last_call.result \in {"read failed", "invalid"}) =>
        /\ root_occs = last_call.before
        /\ messages[Len(messages)] \in
               {"Generator failed", "Rib dimensions must be > 0.",
                "Base period must be > 0.", "Could not parse tab centers."}

\* C28 witness: generator.execute could not read its inputs, deleteOld being
\* on, on a design that holds a container of an earlier run.
C28_Witness ==
    /\ last_call # <<>> /\ last_call.handler = "generator.execute"
    /\ last_call.result = "read failed" /\ last_call.delete_old
    /\ WithPrefix(root_occs, name_prefix) # {}
    /\ messages[Len(messages)] = "Generator failed"

----------------------------------------------------------------------------
(* SpecNotch: generator.execute and generate_flow_ribs with tabs           *)

\* seeds typed into the dialog
NotchSeeds == {1, 4}
\* rib lengths typed into the dialog (inches)
NotchLengths == {0, 48}
\* tab widths and tab heights typed into the dialog (inches)
NotchWidths == {0, 4}
NotchHeights == {0, 1}

InitNotch ==
    \E sd \in NotchSeeds, n \in 1 .. MaxRibs, L \in NotchLengths,
       tabs \in BOOLEAN, tw \in NotchWidths, th \in NotchHeights,
       text \in TabCenterTexts :
       FlowStart([seed |-> sd, ribCount |-> n,
                  ribLength |-> cm(L), ribHeight |-> cm(4),
                  ribThickness |-> cm(1), gapBetweenRibs |-> cm(1),
                  layoutAlongY |-> TRUE,
                  randomness |-> 1, wildness |-> 0, smoothness |-> 0,
                  baseAmplitude |-> cm(12), bendScale |-> cm(72),
                  flowStrength |-> 1, detail |-> 0,
                  useMass |-> TRUE, massStrength |-> 1,
                  samples |-> Samples, smoothPasses |-> MaxPasses,
                  addTabs |-> tabs, tabWidth |-> cm(tw), tabHeight |-> cm(th),
                  tabCenters |-> text, deleteOld |-> TRUE])

SpecNotch == InitNotch /\ [][NextFlow]_vars

\* C25: every back edge that was given a notch has the notch inside it:
\* the notch lies between the bottom and the top corner of the back edge,
\* its bottom below its top, and the notch floor between x = 0 and
\* x = rib_length.
C25_NotchInsideBackEdge ==
    \A r \in DOMAIN footprints :
        LET back == footprints[r].back IN
        Len(back) = 6 =>
            LET y_top_1 == back[1][2]
                y_n_top == back[3][2]
                y_n_bot == back[4][2]
                y_bot_1 == back[6][2]
                x_notch_in == back[3][1]
            IN /\ y_bot_1 <= y_n_bot /\ y_n_bot < y_n_top /\ y_n_top <= y_top_1
               /\ 0 <= x_notch_in /\ x_notch_in <= args.rib_length_in

----------------------------------------------------------------------------
(* SpecNoTabs: a run of either generator with tabs in its dialog           *)

SpecNoTabs == (Init \/ InitNotch) /\ [][Next \/ NextFlow]_vars

\* TRUE when generate_flow_ribs is asked for tabs it cannot cut: the notch
\* width or the notch depth is at most 1e-4
NotchUnusable(a) ==
    a.add_tabs /\ (notch_width_in(a) <= YUnit \div 10000 \/ notch_depth_in(a) <= 0)

\* C23: when tabs are requested and none is usable, the outline is the one
\* drawn without tabs.  In generate_organic_ribs with no span left after
\* clamping, the closing lines are the right end, the whole baseline in one
\* line and the left end; in generate_flow_ribs with a notch width or depth
\* of at most 1e-4, the back edge is the one straight line from the end of
\* the top spline to the start of the bottom spline.
C23_UnusableTabsAsNoTabs ==
    /\ (pc = "check" /\ add_tabs /\ tab_spans = <<>>) =>
          lines = << << <<cm(rib_length_in), cm(inches(fitPts[Len(fitPts)][2]))>>,
                        <<cm(rib_length_in), cm(0)>> >>,
                     << <<cm(rib_length_in), cm(0)>>, <<cm(0), cm(0)>> >>,
                     << <<cm(0), cm(0)>>, <<cm(0), cm(inches(fitPts[1][2]))>> >> >>
    /\ (args # <<>> /\ NotchUnusable(args)) =>
          \A r \in DOMAIN footprints :
              /\ footprints[r].back =
                     <<footprints[r].top[Len(footprints[r].top)],
                       footprints[r].bot[1]>>
              /\ footprints[r] =
                     [Footprint([args EXCEPT !.add_tabs = FALSE],
                                [s \in DOMAIN footprints[r].top |->
                                    footprints[r].top[s][1]],
                                [s \in DOMAIN footprints[r].top |->
                                    footprints[r].top[s][2]
                                    - (args.rib_thickness_in * YUnit) \div 2])
                      EXCEPT !.back = footprints[r].back]

\* C23 witness: a flow rib of 48 in was drawn, extruded and placed in a run
\* with tabs requested at a tab width of 0.
C23_Witness ==
    /\ args # <<>> /\ NotchUnusable(args)
    /\ notch_width_in(args) = 0 /\ notch_depth_in(args) > 0
    /\ args.rib_length_in = 48
    /\ Len(footprints) >= 1 /\ 0 \in placed

----------------------------------------------------------------------------
(* Claims on the tab centres of generate_flow_ribs (checked under SpecNotch) *)

\* the arguments a with the tab centres taken out
WithoutCentres(a) == [a EXCEPT !.tab_centers_in = <<>>]

\* the sample positions and the smoothed centreline of rib number rib that
\* generate_flow_ribs computes from the arguments a
PositionsOf(a) ==
    [s \in 1 .. a.samples + 1 |->
        FlowSamplePosition(a.rib_length_in, s - 1, a.samples)]
CentrelineOf(a, rib) ==
    smooth_series([s \in 1 .. a.samples + 1 |->
                      SmoothScale * lateral_offset_in(a, fields, mass, s - 1, rib,
                                                      PositionsOf(a)[s])],
                  a.smooth_passes)

----------------------------------------------------------------------------
(* SpecPreset: the open dialog and its input changed handler                *)
(*                                                                         *)
(* The unitless inputs hold hundredths here (0.25 is 25), the lengths the  *)
(* host's centimetres as everywhere.                                       *)

\* PRESET_LABEL_NONE
PRESET_LABEL_NONE == "Custom (no change)"

\* config.PRESETS: unitless values in hundredths, bend_scale_in in inches
PRESETS ==
    [name \in {"Clean Dunes", "Gallery Flow", "Carved Terrain"} |->
        CASE name = "Clean Dunes" ->
                 [randomness |-> 25, wildness |-> 15, smoothness |-> 90,
                  detail |-> 20, flow_strength |-> 45, bend_scale_in |-> 90,
                  use_mass |-> FALSE]
          [] name = "Gallery Flow" ->
                 [randomness |-> 35, wildness |-> 30, smoothness |-> 80,
                  detail |-> 35, flow_strength |-> 55, bend_scale_in |-> 72,
                  use_mass |-> FALSE]
          [] OTHER ->
                 [randomness |-> 55, wildness |-> 45, smoothness |-> 60,
                  detail |-> 65, flow_strength |-> 65, bend_scale_in |-> 48,
                  use_mass |-> TRUE, mass_strength |-> 30]]

\* the names the handler is called with: the items of the dropdown
\* (preset_names) and a name that is no preset
PickedNames == {PRESET_LABEL_NONE, "No such preset"} \cup DOMAIN PRESETS

\* set_unitless and set_bool: inputs.itemById(input_id).value = val, when
\* the preset has the key
SetValue(inputs, input_id, preset, key) ==
    IF key \in DOMAIN preset
    THEN [inputs EXCEPT ![input_id] = preset[key]]
    ELSE inputs

\* set_inches: inputs.itemById(input_id).value = float(inches_val) * 2.54
SetInches(inputs, input_id, preset, key) ==
    IF key \in DOMAIN preset
    THEN [inputs EXCEPT ![input_id] = cm(preset[key])]
    ELSE inputs

\* mutant of apply_preset_to_inputs: an input whose key the preset lacks is
\* set back to its default
ApplyPresetOrDefault(inputs, preset_name) ==
    IF preset_name = PRESET_LABEL_NONE \/ preset_name \notin DOMAIN PRESETS
    THEN inputs
    ELSE LET preset == PRESETS[preset_name]
             set == SetInches(SetValue(SetValue(SetValue(SetValue(SetValue(
                        SetValue(inputs, "randomness", preset, "randomness"),
                        "wildness", preset, "wildness"),
                        "smoothness", preset, "smoothness"),
                        "detail", preset, "detail"),
                        "flowStrength", preset, "flow_strength"),
                        "useMass", preset, "use_mass"),
                        "bendScale", preset, "bend_scale_in")
         IN [set EXCEPT !["massStrength"] =
                IF "mass_strength" \in DOMAIN preset
                THEN preset.mass_strength ELSE 25]

\* apply_preset_to_inputs: the values of the inputs when it returns
apply_preset_to_inputs(inputs, preset_name) ==
    IF preset_name = PRESET_LABEL_NONE THEN inputs
    ELSE IF preset_name \notin DOMAIN PRESETS THEN inputs
    ELSE LET preset == PRESETS[preset_name]
             s1 == SetValue(inputs, "randomness", preset, "randomness")
             s2 == SetValue(s1, "wildness", preset, "wildness")
             s3 == SetValue(s2, "smoothness", preset, "smoothness")
             s4 == SetValue(s3, "detail", preset, "detail")
             s5 == SetValue(s4, "flowStrength", preset, "flow_strength")
             s6 == SetValue(s5, "massStrength", preset, "mass_strength")
             s7 == SetInches(s6, "bendScale", preset, "bend_scale_in")
         IN SetValue(s7, "useMass", preset, "use_mass")

InitPreset ==
    \E sd \in {1, 2}, r \in {0, 100}, ms \in {0, 25}, um \in BOOLEAN,
       bs \in {24, 72}, tabs \in BOOLEAN :
       FlowStart([seed |-> sd, ribCount |-> 30,
                  ribLength |-> cm(48), ribHeight |-> cm(4),
                  ribThickness |-> cm(1), gapBetweenRibs |-> cm(1),
                  layoutAlongY |-> TRUE,
                  randomness |-> r, wildness |-> 25, smoothness |-> 80,
                  baseAmplitude |-> cm(1), bendScale |-> cm(bs),
                  flowStrength |-> 55, detail |-> 35,
                  useMass |-> um, massStrength |-> ms,
                  samples |-> 420, smoothPasses |-> 2,
                  addTabs |-> tabs, tabWidth |-> cm(4), tabHeight |-> cm(1),
                  tabCenters |-> <<"16", "32">>, deleteOld |-> TRUE])

\* InputChangedHandler.notify for the changed input: a pick in the preset
\* dropdown applies the preset, any other input is left to the host
InputChanged ==
    /\ pc = "flow_dialog"
    /\ \E changed \in {"presetPick", "seed"}, name \in PickedNames :
          /\ dialog' = IF changed = "presetPick"
                       THEN apply_preset_to_inputs(dialog, name)
                       ELSE dialog
          /\ last_call' = [handler |-> "InputChangedHandler.notify",
                           changed |-> changed, name |-> name, before |-> dialog]
    /\ UNCHANGED <<inputVars, tabVars, smoothVars, ribVars, organicVars,
                   args, fields, mass, draws, y_center_vals, y_smooth, progress,
                   field_vals, layout_along_y, container_transform, root_occs,
                   footprints, pockets>>

NextPreset == InputChanged

SpecPreset == InitPreset /\ [][NextPreset]_vars

\* the preset key the claim gives for each input a preset may change
PresetKeyOf ==
    [input_id \in {"randomness", "wildness", "smoothness", "detail",
                   "flowStrength", "massStrength", "bendScale", "useMass"} |->
        CASE input_id = "flowStrength" -> "flow_strength"
          [] input_id = "massStrength" -> "mass_strength"
          [] input_id = "bendScale" -> "bend_scale_in"
          [] input_id = "useMass" -> "use_mass"
          [] OTHER -> input_id]

\* C24: after a pick in the preset dropdown, every input whose value
\* differs from the value before is one of the eight preset inputs and its
\* key occurs in the picked preset; after "Custom (no change)" or a name
\* that is no preset every input has the value it had.
C24_PresetChangesOnlyItsKeys ==
    (last_call # <<>> /\ last_call.changed = "presetPick") =>
        /\ DOMAIN dialog = DOMAIN last_call.before
        /\ \A input_id \in DOMAIN dialog :
              dialog[input_id] # last_call.before[input_id] =>
                  /\ last_call.name \in DOMAIN PRESETS
                  /\ input_id \in DOMAIN PresetKeyOf
                  /\ PresetKeyOf[input_id] \in DOMAIN PRESETS[last_call.name]
        /\ (last_call.name = PRESET_LABEL_NONE
               \/ last_call.name \notin DOMAIN PRESETS) =>
              dialog = last_call.before

\* C24 witness: "Clean Dunes", which has no mass_strength, was picked in a
\* dialog whose mass strength was 0.30 and whose randomness was 0.55: the
\* randomness is 0.25 now, the mass strength is still 0.30.
C24_Witness ==
    /\ last_call # <<>> /\ last_call.changed = "presetPick"
    /\ last_call.name = "Clean Dunes"
    /\ last_call.before.randomness = 55 /\ dialog.randomness = 25
    /\ last_call.before.massStrength = 30 /\ dialog.massStrength = 30
    /\ last_call.before.useMass /\ ~dialog.useMass
    /\ dialog.bendScale = cm(90)

----------------------------------------------------------------------------
(* SpecBacker: one call of backer.build_backer_panel                       *)

\* tab centres, rib thicknesses, clearances and margins the panel is called
\* with (inches)
BackerCenters == {-1, 3, 16, 47}
BackerThicknesses == {1, 4}
BackerClearances == {0, 1, 2}
BackerMargins == {0, 2}

\* the variables no step of build_backer_panel changes
backerRest == <<tab_spans, fitPts, cur_x, p, occs, bodies, placed, transforms,
                layout_along_y, container_transform, root_occs, footprints,
                last_call, inputVars, smoothVars, organicVars, flowVars>>

InitBacker ==
    /\ tab_centers_in \in SeqsUpTo(BackerCenters, MaxTabs)
    /\ tab_width_in \in Widths
    /\ rib_length_in = 48
    /\ add_tabs \in BOOLEAN
    /\ tab_height_in = 1 /\ rib_height_in = 1
    /\ rib_count \in 1 .. MaxRibs
    /\ IdleTabs /\ IdleSmooth
    /\ pc = "backer_call" /\ tab_spans = <<>> /\ i = 0 /\ fitPts = <<>> /\ lines = <<>>
    /\ cur_x = 0 /\ p = <<0, 0>> /\ k = 0
    /\ occs = {} /\ bodies = {} /\ placed = {} /\ messages = <<>>
    /\ transforms = <<>>
    /\ seed = 0 /\ randomness = 0 /\ base_amp_in = 0 /\ base_period_in = 3
    /\ use_end_fade = FALSE /\ warp_strength_in = 0
    /\ rib_thickness_in \in BackerThicknesses
    /\ gap_between_ribs_in \in {0, 1}
    /\ master = <<>> /\ rib_rng = <<>> /\ streams = <<>>
    /\ global_warp_components = <<>> /\ rib_params = <<>>
    /\ env_vals = <<>> /\ x_vals = <<>> /\ ribs_out = <<>>
    /\ entropy = 0 /\ runs = <<>>
    /\ dialog = <<>> /\ fields = <<>> /\ mass = <<>> /\ draws = 0
    /\ y_center_vals = <<>> /\ y_smooth = <<>> /\ progress = "none"
    /\ field_vals = <<>>
    /\ \E clearance \in BackerClearances, margin \in BackerMargins :
          args = [backer_thickness_in |-> 1,
                  backer_tab_clearance_in |-> clearance,
                  backer_margin_in |-> margin]
    /\ IdleHost /\ layout_along_y = TRUE

\* pitch_in and stack_span_in, after the floors of the arguments (the
\* floors at 0.01 and at 0.0 leave the values enumerated here alone)
BackerPitch == Max(1, rib_thickness_in) + Max(0, gap_between_ribs_in)
StackSpan == (Max(1, rib_count) - 1) * BackerPitch + Max(1, rib_thickness_in)

\* min(s[0] for s in spans), max(s[1] for s in spans)
RECURSIVE MinStart(_)
MinStart(ss) ==
    IF Len(ss) = 1 THEN ss[1][1] ELSE Min(ss[1][1], MinStart(Tail(ss)))
RECURSIVE MaxEnd(_)
MaxEnd(ss) ==
    IF Len(ss) = 1 THEN ss[1][2] ELSE Max(ss[1][2], MaxEnd(Tail(ss)))

\* backer_x0 = max(0.0, min_x - backer_margin_in),
\* backer_x1 = min(rib_length_in, max_x + backer_margin_in)
BackerX0(ss, margin) == Max(0, MinStart(ss) - margin)
BackerX1(ss, margin, L) == Min(L, MaxEnd(ss) + margin)

\* the four lines of the base plate, p0 p1 p2 p3 (cm)
PlateLines(x0, x1, span) ==
    << << <<cm(x0), 0>>, <<cm(x1), 0>> >>,
       << <<cm(x1), 0>>, <<cm(x1), cm(span)>> >>,
       << <<cm(x1), cm(span)>>, <<cm(x0), cm(span)>> >>,
       << <<cm(x0), cm(span)>>, <<cm(x0), 0>> >> >>

\* the pocket of rib number rib for the span t: a0, a1 along the length,
\* b0, b1 along the stack, the corners q0 and q2 (cm)
Pocket(rib, t, clear, L) ==
    LET stack0 == rib * BackerPitch
        stack1 == stack0 + Max(1, rib_thickness_in)
        a0 == Max(0, t[1] - clear)
        a1 == Min(L, t[2] + clear)
        shrunk == stack1 - clear > stack0 + clear
        b0 == IF shrunk THEN stack0 + clear ELSE stack0
        b1 == IF shrunk THEN stack1 - clear ELSE stack1
    IN [rib |-> rib, q0 |-> <<cm(a0), cm(b0)>>, q2 |-> <<cm(a1), cm(b1)>>]

\* build_backer_panel up to the pocket sketch: the early returns, the
\* floors of the arguments, the spans, the base plate
BackerEnter ==
    /\ pc = "backer_call"
    /\ IF ~add_tabs \/ tab_centers_in = <<>>
       THEN /\ messages' = Append(messages, "Backer panel requested, but tabs are disabled")
            /\ pc' = "backer_done"
            /\ UNCHANGED <<builder, spans, lines>>
       ELSE LET ss == backer_tab_spans(tab_centers_in, tab_width_in,
                                       Max(1, rib_length_in))
            IN IF ss = <<>>
               THEN /\ messages' = Append(messages, "no valid tab spans")
                    /\ pc' = "backer_done"
                    /\ builder' = "backer" /\ spans' = ss
                    /\ UNCHANGED lines
               ELSE LET margin == Max(0, args.backer_margin_in)
                        x0 == BackerX0(ss, margin)
                        x1 == BackerX1(ss, margin, Max(1, rib_length_in))
                    IN IF x1 <= x0
                       THEN /\ messages' = Append(messages, "backer length is invalid")
                            /\ pc' = "backer_done"
                            /\ builder' = "backer" /\ spans' = ss
                            /\ UNCHANGED lines
                       ELSE /\ lines' = PlateLines(x0, x1, StackSpan)
                            /\ builder' = "backer" /\ spans' = ss
                            /\ pc' = "backer_pockets"
                            /\ UNCHANGED messages
    /\ UNCHANGED <<i, k, pockets, args, backerRest>>

\* one iteration of the inner loop "for (t0, t1) in spans" for rib i
BackerPocket ==
    /\ pc = "backer_pockets" /\ i < Max(1, rib_count)
    /\ pockets' = Append(pockets,
           Pocket(i, spans[k + 1], Max(0, args.backer_tab_clearance_in),
                  Max(1, rib_length_in)))
    /\ IF k + 1 < Len(spans)
       THEN k' = k + 1 /\ i' = i
       ELSE k' = 0 /\ i' = i + 1
    /\ UNCHANGED <<pc, messages, builder, spans, lines, args, backerRest>>

\* after the loops: the pocket profiles are cut through the plate
BackerCut ==
    /\ pc = "backer_pockets" /\ i >= Max(1, rib_count)
    /\ pc' = "backer_done"
    /\ UNCHANGED <<i, k, messages, builder, spans, lines, pockets, args,
                   backerRest>>

NextBacker ==
    \/ BackerEnter
    \/ BackerPocket
    \/ BackerCut

SpecBacker == InitBacker /\ [][NextBacker]_vars

\* C30: every pocket rectangle drawn lies inside the base plate: between
\* the plate's ends backer_x0 and backer_x1 along the length and between 0
\* and stack_span_in along the stack.
C30_PocketsInsidePlate ==
    \A n \in DOMAIN pockets :
        LET backer_x0 == lines[1][1][1]
            backer_x1 == lines[1][2][1]
            stack_span == lines[2][2][2]
        IN /\ backer_x0 <= pockets[n].q0[1] /\ pockets[n].q2[1] <= backer_x1
           /\ 0 <= pockets[n].q0[2] /\ pockets[n].q2[2] <= stack_span

====
